---- MODULE Spec2Model ----
(***************************************************************************)
(* A model of claude-agent-monitor: the session state engine               *)
(* (dashboard/src/state.js), the archive subsystem (hooks/lib/archiver.js, *)
(* the dashboard's ArchiveSyncer) and the summary cache                    *)
(* (dashboard/src/summarizer.js).                                          *)
(*                                                                         *)
(* Time is the wall clock in milliseconds, as Date.now() gives it.  The    *)
(* clock advances in jumps drawn from small sets so that the thresholds of *)
(* the code (5 min, 10 s, midnight) are crossed exactly.                   *)
(***************************************************************************)
EXTENDS Integers, Sequences, FiniteSets, TLC

VARIABLES
    clock,      \* Date.now(), ms
    logFile,    \* STATE_DIR/<session_id>.jsonl, one per session id
    built,      \* per log file, what buildSession returned in the refresh cycle
    sessions,   \* what loadAllSessions returned in the refresh cycle
    fresh,      \* TRUE in the state a refresh cycle leaves, FALSE once it is over
    configFile, \* CONFIG_PATH (config.json) as the archiver reads it
    fs,         \* MAP_PATH (archive-map.json) and the temporary files beside it
    archive,    \* the archive files, by path
    proc,       \* the hook processes: where each is in its hook, and its locals
    syncer,     \* the dashboard's ArchiveSyncer
    raised,     \* the archive functions that have thrown to their caller
    smConfig,   \* SummaryManager._config
    smCache,    \* SummaryManager._cache: sessionId -> { text, toolCount, ts }
    smPending,  \* SummaryManager._pending: ids with an API call in flight
    requests,   \* per session, the API calls issued so far, oldest first
    cacheMsgs,  \* per session, the messageCount the cached value was computed for
    lastCall,   \* the getSummary call just made: its session, what it did and returned
    watcher,    \* SessionWatcher: _fsWatcher, _pollTimer, _debounceTimer, _lastMtimes
    timers,     \* the runtime: open native watch handles, pending timeouts, the interval
    dir,        \* the state directory: whether it exists, the mtime of each log file
    wlog,       \* what has been observed of the watcher: its 'change' emissions
    sseClients, \* web server: the set of push channels, in insertion order
    others,     \* web server: the number of further channels in the set
    chan,       \* each channel: its connection, and what has been written to it
    snapshot,   \* the version of the session logs a payload is built from
    wire,       \* the connection attempt or broadcast just made
    previousSessions, \* refresh: the snapshot of the previous cycle
    allSessions,      \* refresh: the snapshot of this cycle
    transitions,      \* refresh: what detectTransitions returned
    detected,         \* whether detectTransitions has been called
    config, \* the dashboard's configuration, as loadConfig returned it
    pushWatch, \* web server: the mode of its watcher, its debounce timer, the log its poll saw
    seen, \* web server: per channel, the log version of the payload last written to it
    pushBy, \* web server: what called the broadcast just made
    endedAt, \* per log file, its length when a refresh cycle last derived ended (0: never)
    transcript, \* the number of messages in the transcript of session s1
    appeared, \* the messages that were in a conversation handed to sync
    finished, \* the session ids for which an initArchive call ran to its end
    clearer, \* clearEndedSessions: where the call is, its locals, what it has deleted
    tui, \* terminal dashboard: uiState.notifications, and the notifications of the last refresh
    rel \* relationships.js: the session list, the parent map and the tree built from it

(***************************************************************************)
(* Bounds of the model.                                                    *)
(***************************************************************************)
MaxLines == 3
MaxForeign == 1
MaxHooks == 2
MaxSynced == 1
MaxRequests == 2
MaxStarts == 2
MaxEvents == 6
MaxBroadcasts == 2
MaxToolLines == 11
MaxAppends == 3
MaxTranscript == 21

SessionIds == {"s1", "s2"}

stateVars == <<built, sessions, fresh>>
archiveVars == <<configFile, fs, archive, proc, syncer, raised>>
summaryVars == <<smConfig, smCache, smPending, requests, cacheMsgs, lastCall>>
dashVars == <<watcher, timers, dir, wlog>>
webVars == <<sseClients, others, chan, snapshot, wire>>
notifVars == <<previousSessions, allSessions, transitions, detected>>
cfgVars == <<config>>
pushVars == <<pushWatch, seen, pushBy>>
histVars == <<endedAt>>
syncVars == <<transcript, appeared>>
ghostVars == <<finished>>
clearVars == <<clearer>>
tuiVars == <<tui>>
relVars == <<rel>>

(***************************************************************************)
(* dashboard/src/state.js                                                  *)
(***************************************************************************)
STALE_THRESHOLD_MS == 5 * 60 * 1000

\* The four event kinds the hooks write, and one kind that is none of them.
EventKinds == {"session_start", "tool_use", "stop", "session_end"}
ForeignKind == "custom"

\* readdirSync(STATE_DIR): the log files in directory order.
FileOrder == <<"s1", "s2">>

\* A line of a log file.  json says what JSON.parse makes of it: "object" (an
\* event object), "invalid" (JSON.parse throws) or "falsy" (it parses to
\* null, 0, false or "", which filter(Boolean) drops).
EventLine(sid, kind, ts) ==
    [json |-> "object", event |-> kind, ts |-> ts, session_id |-> sid]
JunkLine(form) ==
    [json |-> form, event |-> "-", ts |-> 0, session_id |-> "-"]

NoFile == [exists |-> FALSE, readable |-> TRUE, lines |-> <<>>]

\* Number of lines in all log files.
RECURSIVE TotalLines(_)
TotalLines(S) ==
    IF S = {} THEN 0
    ELSE LET f == CHOOSE x \in S : TRUE
         IN  Len(logFile[f].lines) + TotalLines(S \ {f})

\* Number of lines in all log files that no hook wrote.
IsForeign(l) == l.json # "object" \/ l.event = ForeignKind

RECURSIVE TotalForeign(_)
TotalForeign(S) ==
    IF S = {} THEN 0
    ELSE LET f == CHOOSE x \in S : TRUE
         IN  Len(SelectSeq(logFile[f].lines, IsForeign)) + TotalForeign(S \ {f})

\* parseJsonlFile with a single try/catch around the whole file: one bad line
\* loses every line of the file.
parseJsonlFileAbortsOnBadLine(file) ==
    IF ~file.readable THEN <<>>
    ELSE IF \E i \in 1..Len(file.lines) : file.lines[i].json = "invalid" THEN <<>>
    ELSE SelectSeq(file.lines, LAMBDA l : l.json = "object")

\* parseJsonlFile: readFileSync throwing gives []; a line whose JSON.parse
\* throws becomes null; filter(Boolean) drops the nulls and falsy values.
parseJsonlFile(file) ==
    IF ~file.readable THEN <<>>
    ELSE SelectSeq(file.lines, LAMBDA l : l.json = "object")

\* deriveStatus whose default branch answers idle.
deriveStatusDefaultIdle(events, now) ==
    IF Len(events) = 0 THEN "unknown"
    ELSE LET lastEvent == events[Len(events)]
             elapsed == now - lastEvent.ts
         IN  CASE lastEvent.event = "session_end" -> "ended"
               [] lastEvent.event = "stop" -> "idle"
               [] lastEvent.event = "session_start" ->
                    IF elapsed >= STALE_THRESHOLD_MS THEN "stale" ELSE "idle"
               [] lastEvent.event = "tool_use" ->
                    IF elapsed >= STALE_THRESHOLD_MS THEN "stale" ELSE "active"
               [] OTHER -> "idle"

\* deriveStatus with > where the code has >=.
deriveStatusStrictlyOlder(events, now) ==
    IF Len(events) = 0 THEN "unknown"
    ELSE LET lastEvent == events[Len(events)]
             elapsed == now - lastEvent.ts
         IN  CASE lastEvent.event = "session_end" -> "ended"
               [] lastEvent.event = "stop" -> "idle"
               [] lastEvent.event = "session_start" ->
                    IF elapsed > STALE_THRESHOLD_MS THEN "stale" ELSE "idle"
               [] lastEvent.event = "tool_use" ->
                    IF elapsed > STALE_THRESHOLD_MS THEN "stale" ELSE "active"
               [] OTHER -> "unknown"

\* deriveStatus that tests the age of the last event before its kind.
deriveStatusAgeFirst(events, now) ==
    IF Len(events) = 0 THEN "unknown"
    ELSE LET lastEvent == events[Len(events)]
             elapsed == now - lastEvent.ts
         IN  IF elapsed >= STALE_THRESHOLD_MS /\ lastEvent.event # "stop" THEN "stale"
             ELSE CASE lastEvent.event = "session_end" -> "ended"
                    [] lastEvent.event = "stop" -> "idle"
                    [] lastEvent.event = "session_start" -> "idle"
                    [] lastEvent.event = "tool_use" -> "active"
                    [] OTHER -> "unknown"

deriveStatus(events, now) ==
    IF Len(events) = 0 THEN "unknown"
    ELSE LET lastEvent == events[Len(events)]
             elapsed == now - lastEvent.ts
         IN  CASE lastEvent.event = "session_end" -> "ended"
               [] lastEvent.event = "stop" -> "idle"
               [] lastEvent.event = "session_start" ->
                    IF elapsed >= STALE_THRESHOLD_MS THEN "stale" ELSE "idle"
               [] lastEvent.event = "tool_use" ->
                    IF elapsed >= STALE_THRESHOLD_MS THEN "stale" ELSE "active"
               [] OTHER -> "unknown"

\* buildSession returns null for an empty event list.
NoSession == [id |-> "null"]

\* config.js: DEFAULTS, of which the session loader reads maxRecentTools.
DEFAULTS == [maxRecentTools |-> 10]

\* A maxRecentTools that is missing (undefined); like 0 it is falsy.
NoMax == 0

\* loadConfig without a config file.
ConfigDefaults == config = DEFAULTS

\* Array.prototype.reverse
RECURSIVE Reverse(_)
Reverse(seq) ==
    IF seq = <<>> THEN <<>> ELSE Append(Reverse(Tail(seq)), Head(seq))

\* slice that keeps the first max elements, the oldest.
SliceFirst(seq, max) ==
    IF Len(seq) <= max THEN seq ELSE SubSeq(seq, 1, max)

\* toolEvents.slice(-max), max a positive integer: the last max elements.
SliceLast(seq, max) ==
    IF Len(seq) <= max THEN seq ELSE SubSeq(seq, Len(seq) - max + 1, Len(seq))

\* The entry of recentTools made from a tool_use event; the event's tool_name,
\* tool_summary and tool_detail are copied with its ts and are left out here.
ToolEntry(e) == [ts |-> e.ts]

buildSession(events, maxRecentTools, now) ==
    IF Len(events) = 0 THEN NoSession
    ELSE LET max == IF maxRecentTools = NoMax THEN DEFAULTS.maxRecentTools
                    ELSE maxRecentTools
             toolEvents == SelectSeq(events, LAMBDA e : e.event = "tool_use")
             lastEvent == events[Len(events)]
             slice == Reverse(SliceLast(toolEvents, max))
         IN  [id |-> events[1].session_id,
              status |-> deriveStatus(events, now),
              recentTools |-> [i \in 1..Len(slice) |-> ToolEntry(slice[i])],
              lastEventAt |-> lastEvent.ts,
              toolCount |-> Len(toolEvents)]

\* The ghost-session filter of loadAllSessions.
Visible(s) == s.toolCount > 0 \/ s.status = "active" \/ s.status = "idle"

\* Array.prototype.sort with (a, b) => b.lastEventAt - a.lastEventAt: stable,
\* most recent first.
RECURSIVE InsertByLastEvent(_, _)
InsertByLastEvent(s, sorted) ==
    IF sorted = <<>> THEN <<s>>
    ELSE IF s.lastEventAt > Head(sorted).lastEventAt THEN <<s>> \o sorted
    ELSE <<Head(sorted)>> \o InsertByLastEvent(s, Tail(sorted))

RECURSIVE SortByLastEvent(_)
SortByLastEvent(list) ==
    IF list = <<>> THEN <<>>
    ELSE InsertByLastEvent(list[Len(list)], SortByLastEvent(SubSeq(list, 1, Len(list) - 1)))

\* files.map(parse, build): one entry per file readdirSync lists.
RECURSIVE MapBuild(_, _, _)
MapBuild(files, maxRecentTools, now) ==
    IF files = <<>> THEN <<>>
    ELSE IF logFile[Head(files)].exists
         THEN <<buildSession(parseJsonlFile(logFile[Head(files)]), maxRecentTools, now)>>
                  \o MapBuild(Tail(files), maxRecentTools, now)
         ELSE MapBuild(Tail(files), maxRecentTools, now)

\* loadAllSessions(config): (config && config.maxRecentTools) || 10
loadAllSessions(now) ==
    LET maxRecentTools == IF config.maxRecentTools = NoMax THEN 10
                          ELSE config.maxRecentTools
        all == MapBuild(FileOrder, maxRecentTools, now)
        nonNull == SelectSeq(all, LAMBDA s : s # NoSession)
    IN  SortByLastEvent(SelectSeq(nonNull, Visible))

\* No refresh cycle has derived status ended yet.
NoneEnded == endedAt = [f \in SessionIds |-> [len |-> 0, again |-> FALSE]]

\* What the map step of loadAllSessions produced for one file.
BuiltOf(f, now) ==
    IF logFile[f].exists
    THEN buildSession(parseJsonlFile(logFile[f]),
                      IF config.maxRecentTools = NoMax THEN 10 ELSE config.maxRecentTools,
                      now)
    ELSE NoSession

(***************************************************************************)
(* The hooks (hooks/*.js, hooks/lib/shared.js) and what else touches the   *)
(* log directory.                                                          *)
(***************************************************************************)
\* A Session is derived and never kept: what a refresh cycle computed is gone
\* once the cycle is over, the next cycle computes it again from the logs.
ResultDropped ==
    /\ built' = [f \in SessionIds |-> NoSession]
    /\ sessions' = <<>>
    /\ fresh' = FALSE

AppendLine(f, line) ==
    logFile' = [logFile EXCEPT ![f] =
                   [exists |-> TRUE, readable |-> @.readable,
                    lines |-> Append(@.lines, line)]]

\* writeEvent, called by a hook with ts = new Date().toISOString().
HookAppend(sid, kind) ==
    /\ TotalLines(SessionIds) < MaxLines
    /\ logFile[sid].readable
    /\ AppendLine(sid, EventLine(sid, kind, clock))
    /\ ResultDropped
    /\ UNCHANGED <<clock, archiveVars, summaryVars, dashVars, webVars, notifVars, cfgVars, pushVars, histVars, syncVars, ghostVars, clearVars, tuiVars, relVars>>

\* A line no hook of this repository writes: torn or hand-edited text, a JSON
\* value that is no event object, or an event of an unknown kind.
ForeignAppend(f, form) ==
    /\ TotalLines(SessionIds) < MaxLines
    /\ TotalForeign(SessionIds) < MaxForeign
    /\ AppendLine(f, IF form = "object" THEN EventLine(f, ForeignKind, clock)
                     ELSE JunkLine(form))
    /\ ResultDropped
    /\ UNCHANGED <<clock, archiveVars, summaryVars, dashVars, webVars, notifVars, cfgVars, pushVars, histVars, syncVars, ghostVars, clearVars, tuiVars, relVars>>

\* The permissions of a log file change: readFileSync throws from now on.
SetUnreadable(f) ==
    /\ logFile[f].exists
    /\ logFile[f].readable
    /\ logFile' = [logFile EXCEPT ![f].readable = FALSE]
    /\ ResultDropped
    /\ UNCHANGED <<clock, archiveVars, summaryVars, dashVars, webVars, notifVars, cfgVars, pushVars, histVars, syncVars, ghostVars, clearVars, tuiVars, relVars>>

\* Time passes.  The instants at which the model looks at the system: just
\* before, at and after the age at which a session goes stale.
StateInstants ==
    {STALE_THRESHOLD_MS - 1, STALE_THRESHOLD_MS, 2 * STALE_THRESHOLD_MS}

TickState(t) ==
    /\ t > clock
    /\ clock' = t
    /\ ResultDropped
    /\ UNCHANGED <<logFile, archiveVars, summaryVars, dashVars, webVars, notifVars, cfgVars, pushVars, histVars, syncVars, ghostVars, clearVars, tuiVars, relVars>>

\* A hook appends an event to the log of s1, one millisecond after the event
\* before it, so that every event has a ts of its own.
TimedAppend(kind) ==
    /\ Len(logFile["s1"].lines) < MaxToolLines
    /\ clock' = clock + 1
    /\ AppendLine("s1", EventLine("s1", kind, clock'))
    /\ ResultDropped
    /\ UNCHANGED <<archiveVars, summaryVars, dashVars, webVars, notifVars, cfgVars, pushVars, histVars, syncVars, ghostVars, clearVars, tuiVars, relVars>>

\* One refresh cycle: loadAllSessions(config), with Date.now() read once.
Refresh ==
    /\ built' = [f \in SessionIds |-> BuiltOf(f, clock)]
    /\ sessions' = loadAllSessions(clock)
    /\ fresh' = TRUE
    /\ endedAt' = [f \in SessionIds |->
                       IF BuiltOf(f, clock) # NoSession /\ BuiltOf(f, clock).status = "ended"
                       THEN [len |-> Len(logFile[f].lines),
                             again |-> endedAt[f].len = Len(logFile[f].lines)]
                       ELSE endedAt[f]]
    /\ UNCHANGED <<clock, logFile, archiveVars, summaryVars, dashVars, webVars, notifVars, cfgVars, pushVars, syncVars, ghostVars, clearVars, tuiVars, relVars>>


(***************************************************************************)
(* dashboard/src/state.js: clearEndedSessions, while the hooks run.        *)
(***************************************************************************)
NoDeletion == [made |-> FALSE, file |-> "-", status |-> "-", lost |-> 0]

\* No call of clearEndedSessions is under way.
NotClearing == [pc |-> "idle", files |-> <<>>, i |-> 1, readLen |-> 0, cleared |-> 0,
                unlinked |-> 0, last |-> NoDeletion]

ClearIdle == clearer = NotClearing

\* The status buildSession(events) gives the log now; "none" for null.
StatusNow(f) ==
    LET session == buildSession(parseJsonlFile(logFile[f]), NoMax, clock)
    IN  IF session = NoSession THEN "none" ELSE session.status

\* clearEndedSessions: session.status === 'ended' || session.status === 'stale'
Inactive(status) == status \in {"ended", "stale"}

\* clearEndedSessions: existsSync, readdirSync.
ClearStart ==
    /\ clearer.pc \in {"idle", "returned"}
    /\ clearer' = [NotClearing EXCEPT
                       !.pc = "listed",
                       !.files = SelectSeq(FileOrder, LAMBDA f : logFile[f].exists)]
    /\ UNCHANGED <<clock, logFile, stateVars, archiveVars, summaryVars, dashVars, webVars,
                   notifVars, cfgVars, pushVars, histVars, syncVars, ghostVars, tuiVars, relVars>>

\* The loop reads the next file and builds its session: parseJsonlFile,
\* buildSession(events), the test of the status.
ClearRead ==
    /\ clearer.pc = "listed"
    /\ clearer.i <= Len(clearer.files)
    /\ LET f == clearer.files[clearer.i]
       IN  clearer' = IF Inactive(StatusNow(f))
                      THEN [clearer EXCEPT !.pc = "decided",
                                           !.readLen = Len(logFile[f].lines)]
                      ELSE [clearer EXCEPT !.i = @ + 1]
    /\ UNCHANGED <<clock, logFile, stateVars, archiveVars, summaryVars, dashVars, webVars,
                   notifVars, cfgVars, pushVars, histVars, syncVars, ghostVars, tuiVars, relVars>>

\* try { fs.unlinkSync(file); cleared++ } catch {}: the file goes with all it
\* holds now; unlinkSync throws when the file cannot be removed.
ClearUnlink(ok) ==
    /\ clearer.pc = "decided"
    /\ LET f == clearer.files[clearer.i]
       IN  IF ok
           THEN /\ logFile' = [logFile EXCEPT ![f] = NoFile]
                /\ clearer' = [clearer EXCEPT
                                   !.pc = "listed", !.i = @ + 1,
                                   !.cleared = @ + 1, !.unlinked = @ + 1,
                                   !.last = [made |-> TRUE, file |-> f,
                                             status |-> StatusNow(f),
                                             lost |-> Len(logFile[f].lines)
                                                          - clearer.readLen]]
           ELSE /\ clearer' = [clearer EXCEPT !.pc = "listed", !.i = @ + 1]
                /\ UNCHANGED logFile
    /\ ResultDropped
    /\ UNCHANGED <<clock, archiveVars, summaryVars, dashVars, webVars,
                   notifVars, cfgVars, pushVars, histVars, syncVars, ghostVars, tuiVars, relVars>>

\* return cleared
ClearReturn ==
    /\ clearer.pc = "listed"
    /\ clearer.i > Len(clearer.files)
    /\ clearer' = [clearer EXCEPT !.pc = "returned"]
    /\ UNCHANGED <<clock, logFile, stateVars, archiveVars, summaryVars, dashVars, webVars,
                   notifVars, cfgVars, pushVars, histVars, syncVars, ghostVars, tuiVars, relVars>>

(***************************************************************************)
(* hooks/lib/archiver.js                                                   *)
(***************************************************************************)
DAY_MS == 24 * 60 * 60 * 1000

\* The hook processes.  A process id is free again once its process is gone.
Pids == {"p1", "p2"}

MAP_PATH == "archive-map.json"

\* saveMap writing the mapping file in place.
TmpPathInPlace(pid) == MAP_PATH

\* saveMap: tmpPath = MAP_PATH + '.tmp.' + process.pid
TmpPath(pid) ==
    IF pid = "p1" THEN "archive-map.json.tmp.p1" ELSE "archive-map.json.tmp.p2"

MapPaths == {MAP_PATH} \cup {TmpPath(p) : p \in Pids}

\* computeArchivePath: <basePath>/YYYY/MM/YYYY-MM-DD-<shortId>.jsonl.  The
\* date is the day of the timestamp; the short id is the id without dashes
\* cut to 8 characters, which leaves the ids of the model as they are.
ShortId(sessionId) == sessionId

computeArchivePath(sessionId, ts) ==
    [day |-> ts \div DAY_MS, shortId |-> ShortId(sessionId)]

NoPath == [day |-> -1, shortId |-> "-"]

\* The mapping as an object: session id -> archive path, NoPath when absent.
EmptyMap == [s \in SessionIds |-> NoPath]

\* A file holding JSON: absent, partial (opened and truncated, the text not
\* yet or not wholly written) or complete.  json is the kind of value a
\* complete file holds: an object, or null.
AbsentFile == [st |-> "absent", json |-> "object", map |-> EmptyMap]
PartialFile == [st |-> "partial", json |-> "object", map |-> EmptyMap]
CompleteFile(map) == [st |-> "complete", json |-> "object", map |-> map]
NullFile == [st |-> "complete", json |-> "null", map |-> EmptyMap]

\* getArchiveBasePath: '' when config.json is missing, is no JSON object or
\* holds no archivePath.
getArchiveBasePath ==
    IF configFile = "ok" THEN "/archive" ELSE ""

\* loadMap: JSON.parse of the file, {} when reading or parsing throws.
\* The result is "null" when the file holds the JSON value null.
loadMap ==
    IF fs[MAP_PATH].st = "complete" THEN fs[MAP_PATH]
    ELSE CompleteFile(EmptyMap)

\* resolveArchivePath: map[sessionId] || null.  Reading a property of null
\* throws a TypeError.
resolveThrows == loadMap.json = "null"
resolveArchivePath(sessionId) ==
    IF loadMap.json = "null" THEN NoPath ELSE loadMap.map[sessionId]

\* initArchive: updatedMap = { ...map, [sessionId]: filePath }
UpdatedMap(map, sessionId, filePath) == [map EXCEPT ![sessionId] = filePath]

ArchiveEntry(event, sid, n, text) ==
    [event |-> event, session_id |-> sid, n |-> n, text |-> text]

\* appendToArchive, when mkdirSync and appendFileSync succeed.
appendToArchive(files, filePath, entries) ==
    [files EXCEPT ![filePath] = @ \o entries]

ArchivePaths == DOMAIN archive

\* Number of entries the dashboard has appended to the archive files.
\* The entries whose number the model bounds: the summary and topic updates
\* (the conversation messages are bounded by the transcript).
FromDashboard(e) ==
    e.event \in {"summary_update", "topic_update"}

RECURSIVE SyncedSize(_)
SyncedSize(P) ==
    IF P = {} THEN 0
    ELSE LET x == CHOOSE y \in P : TRUE
         IN  Len(SelectSeq(archive[x], FromDashboard)) + SyncedSize(P \ {x})

\* The hooks that archive: session-start calls initArchive, post-tool-use and
\* session-end call archiveEvent, both in the same way.
HookKinds == {"session_start", "tool_use"}

IdleProc == [pc |-> "idle", sid |-> "-", kind |-> "-", ts |-> 0, path |-> NoPath,
             map |-> EmptyMap]

\* A hook starts: writeEvent appends its event to the session log.  The
\* archive call follows in a try/catch.
HookStart(p, sid, kind) ==
    /\ proc[p].pc = "idle"
    /\ TotalLines(SessionIds) < MaxHooks
    /\ AppendLine(sid, EventLine(sid, kind, clock))
    /\ proc' = [proc EXCEPT ![p] = [IdleProc EXCEPT !.pc = "logged", !.sid = sid,
                                       !.kind = kind, !.ts = clock]]
    /\ UNCHANGED <<clock, stateVars, summaryVars, dashVars, webVars, notifVars, configFile, fs, archive, syncer, raised, cfgVars, pushVars, histVars, syncVars, ghostVars, clearVars, tuiVars, relVars>>

\* archiveEvent up to resolveArchivePath: no base path or no mapping ends the
\* call; a mapping file holding null makes resolveArchivePath throw, and
\* archiveEvent, which has no try, throws to the hook.
ArchiveEventResolve(p) ==
    /\ proc[p].pc = "logged"
    /\ proc[p].kind # "session_start"
    /\ IF getArchiveBasePath = ""
       THEN proc' = [proc EXCEPT ![p] = IdleProc] /\ UNCHANGED raised
       ELSE IF resolveThrows
       THEN proc' = [proc EXCEPT ![p] = IdleProc]
            /\ raised' = raised \cup {"archiveEvent"}
       ELSE IF resolveArchivePath(proc[p].sid) = NoPath
       THEN proc' = [proc EXCEPT ![p] = IdleProc] /\ UNCHANGED raised
       ELSE proc' = [proc EXCEPT ![p].pc = "resolved",
                                 ![p].path = resolveArchivePath(proc[p].sid)]
            /\ UNCHANGED raised
    /\ UNCHANGED <<clock, logFile, stateVars, summaryVars, dashVars, webVars, notifVars, configFile, fs, archive, syncer, cfgVars, pushVars, histVars, syncVars, ghostVars, clearVars, tuiVars, relVars>>

\* archiveEvent: appendToArchive(filePath, event), silent when it fails.
ArchiveEventAppend(p, ok) ==
    /\ proc[p].pc = "resolved"
    /\ archive' = IF ok
                  THEN appendToArchive(archive, proc[p].path,
                           <<ArchiveEntry(proc[p].kind, proc[p].sid, 0, "")>>)
                  ELSE archive
    /\ proc' = [proc EXCEPT ![p] = IdleProc]
    /\ UNCHANGED <<clock, logFile, stateVars, summaryVars, dashVars, webVars, notifVars, configFile, fs, syncer, raised, cfgVars, pushVars, histVars, syncVars, ghostVars, clearVars, tuiVars, relVars>>

\* The session-start hook calls initArchive(basePath, event) with the event it
\* has just written.  initArchive computes the path from the event's
\* timestamp and appends archive_metadata and the session_start event; each
\* append is silent when it fails.
InitArchiveAppend(p, ok1, ok2) ==
    /\ proc[p].pc = "logged"
    /\ proc[p].kind = "session_start"
    /\ IF getArchiveBasePath = ""
       THEN proc' = [proc EXCEPT ![p] = IdleProc] /\ UNCHANGED archive
       ELSE LET filePath == computeArchivePath(proc[p].sid, proc[p].ts)
                meta == IF ok1
                        THEN <<ArchiveEntry("archive_metadata", proc[p].sid, 0, "")>>
                        ELSE <<>>
                start == IF ok2
                         THEN <<ArchiveEntry("session_start", proc[p].sid, 0, "")>>
                         ELSE <<>>
            IN  /\ archive' = appendToArchive(archive, filePath, meta \o start)
                /\ proc' = [proc EXCEPT ![p].pc = "appended", ![p].path = filePath]
    /\ UNCHANGED <<clock, logFile, stateVars, summaryVars, dashVars, webVars, notifVars, configFile, fs, syncer, raised, cfgVars, pushVars, histVars, syncVars, ghostVars, clearVars, tuiVars, relVars>>

\* initArchive: const map = loadMap(); updatedMap = {...map, [id]: filePath}.
\* Spreading null gives {}.
InitArchiveLoadMap(p) ==
    /\ proc[p].pc = "appended"
    /\ proc' = [proc EXCEPT ![p].pc = "loaded",
                            ![p].map = UpdatedMap(IF loadMap.json = "null" THEN EmptyMap
                                                  ELSE loadMap.map,
                                                  proc[p].sid, proc[p].path)]
    /\ UNCHANGED <<clock, logFile, stateVars, summaryVars, dashVars, webVars, notifVars, configFile, fs, archive, syncer, raised, cfgVars, pushVars, histVars, syncVars, ghostVars, clearVars, tuiVars, relVars>>

\* saveMap: writeFileSync(tmpPath, ...) opens and truncates the temporary
\* file, then writes the text.
SaveMapOpen(p) ==
    /\ proc[p].pc = "loaded"
    /\ fs' = [fs EXCEPT ![TmpPath(p)] = PartialFile]
    /\ proc' = [proc EXCEPT ![p].pc = "writing"]
    /\ UNCHANGED <<clock, logFile, stateVars, summaryVars, dashVars, webVars, notifVars, configFile, archive, syncer, raised, cfgVars, pushVars, histVars, syncVars, ghostVars, clearVars, tuiVars, relVars>>

SaveMapWrite(p) ==
    /\ proc[p].pc = "writing"
    /\ fs' = [fs EXCEPT ![TmpPath(p)] = CompleteFile(proc[p].map)]
    /\ proc' = [proc EXCEPT ![p].pc = "written"]
    /\ UNCHANGED <<clock, logFile, stateVars, summaryVars, dashVars, webVars, notifVars, configFile, archive, syncer, raised, cfgVars, pushVars, histVars, syncVars, ghostVars, clearVars, tuiVars, relVars>>

\* saveMap: renameSync(tmpPath, MAP_PATH), atomic.
SaveMapRename(p) ==
    /\ proc[p].pc = "written"
    /\ fs[TmpPath(p)].st # "absent"
    /\ fs' = IF TmpPath(p) = MAP_PATH THEN fs
             ELSE [fs EXCEPT ![MAP_PATH] = fs[TmpPath(p)], ![TmpPath(p)] = AbsentFile]
    /\ proc' = [proc EXCEPT ![p] = IdleProc]
    /\ finished' = finished \cup {proc[p].sid}
    /\ UNCHANGED <<clock, logFile, stateVars, summaryVars, dashVars, webVars, notifVars, configFile, archive, syncer, raised, cfgVars, pushVars, histVars, syncVars, clearVars, tuiVars, relVars>>

\* No initArchive call has been made.
NoneFinished == finished = {}

\* A hook process ends where it is: it is killed, or a step of saveMap
\* (mkdirSync, writeFileSync, renameSync) throws and the catch ends the call.
\* What it has written stays.
HookStops(p) ==
    /\ proc[p].pc \in {"appended", "loaded", "writing", "written"}
    /\ proc' = [proc EXCEPT ![p] = IdleProc]
    /\ UNCHANGED <<clock, logFile, stateVars, summaryVars, dashVars, webVars, notifVars, configFile, fs, archive, syncer, raised, cfgVars, pushVars, histVars, syncVars, ghostVars, clearVars, tuiVars, relVars>>

(***************************************************************************)
(* The dashboard's ArchiveSyncer.                                          *)
(***************************************************************************)
CACHE_TTL_MS == 30000

NoSyncState == [lastMsgCount |-> 0, lastSummary |-> "", lastTopic |-> ""]

\* _getBasePath: the cached base path while it is younger than CACHE_TTL_MS.
CacheIsFresh == syncer.cached /\ clock - syncer.cacheTs < CACHE_TTL_MS
SyncBasePath == IF CacheIsFresh THEN syncer.basePath ELSE getArchiveBasePath

AfterGetBasePath ==
    IF CacheIsFresh THEN syncer
    ELSE [syncer EXCEPT !.cached = TRUE, !.basePath = getArchiveBasePath,
                        !.cacheTs = clock]

\* loadConversation: extractMessages(filePath, 20)
CONVERSATION_LIMIT == 20

\* session.conversation for a transcript of n messages, numbered 1..n:
\* extractMessages returns messages.slice(-limit), the last 20 of them.
Conversation(n) ==
    IF n <= CONVERSATION_LIMIT THEN [i \in 1..n |-> i]
    ELSE [i \in 1..CONVERSATION_LIMIT |-> n - CONVERSATION_LIMIT + i]

\* What one sync call appends, in order.
SyncEntries(sid, n, summary, topic) ==
    LET st == syncer.state[sid]
        msgs == IF Len(Conversation(n)) > st.lastMsgCount
                THEN [i \in 1..(Len(Conversation(n)) - st.lastMsgCount) |->
                         ArchiveEntry("conversation_message", sid,
                                      Conversation(n)[st.lastMsgCount + i], "")]
                ELSE <<>>
        sum == IF summary # "" /\ summary # st.lastSummary
               THEN <<ArchiveEntry("summary_update", sid, 0, summary)>> ELSE <<>>
        top == IF topic # "" /\ topic # st.lastTopic
               THEN <<ArchiveEntry("topic_update", sid, 0, topic)>> ELSE <<>>
    IN  msgs \o sum \o top

SyncState(sid, n, summary, topic) ==
    LET st == syncer.state[sid]
    IN  [lastMsgCount |-> IF Len(Conversation(n)) > st.lastMsgCount
                          THEN Len(Conversation(n)) ELSE st.lastMsgCount,
         lastSummary |-> IF summary # "" /\ summary # st.lastSummary
                         THEN summary ELSE st.lastSummary,
         lastTopic |-> IF topic # "" /\ topic # st.lastTopic
                       THEN topic ELSE st.lastTopic]

\* ArchiveSyncer.sync(session, summary, topic), one call, session.conversation
\* read from a transcript of n messages.  appendToArchive is silent when it
\* fails, and the tracking state advances all the same.
Sync(sid, n, summary, topic, ok) ==
    /\ SyncedSize(ArchivePaths) + Len(SyncEntries(sid, n, summary, topic)) <= MaxSynced
    /\ IF SyncBasePath = ""
       THEN /\ syncer' = AfterGetBasePath
            /\ UNCHANGED <<archive, raised>>
       ELSE IF resolveThrows
       THEN /\ syncer' = AfterGetBasePath
            /\ raised' = raised \cup {"sync"}
            /\ UNCHANGED archive
       ELSE IF resolveArchivePath(sid) = NoPath
       THEN /\ syncer' = AfterGetBasePath
            /\ UNCHANGED <<archive, raised>>
       ELSE /\ archive' = IF ok
                          THEN appendToArchive(archive, resolveArchivePath(sid),
                                               SyncEntries(sid, n, summary, topic))
                          ELSE archive
            /\ syncer' = [AfterGetBasePath EXCEPT
                              !.state[sid] = SyncState(sid, n, summary, topic)]
            /\ UNCHANGED raised
    /\ appeared' = appeared \cup {Conversation(n)[i] : i \in 1..Len(Conversation(n))}
    /\ UNCHANGED <<clock, logFile, stateVars, summaryVars, dashVars, webVars, notifVars, configFile, fs, proc, cfgVars, pushVars, histVars, transcript, ghostVars, clearVars, tuiVars, relVars>>

\* A message is added to the transcript of s1.
TranscriptGrows ==
    /\ transcript < MaxTranscript
    /\ transcript' = transcript + 1
    /\ UNCHANGED <<clock, logFile, stateVars, archiveVars, summaryVars, dashVars, webVars,
                   notifVars, cfgVars, pushVars, histVars, appeared, ghostVars, clearVars, tuiVars, relVars>>

\* No transcript yet.
NoTranscript ==
    /\ transcript = 0
    /\ appeared = {}

\* Time passes: 23:58:00 on one day, then 00:02:00 on the next.
ArchiveStart == DAY_MS - 2 * 60 * 1000
ArchiveInstants == {DAY_MS + 2 * 60 * 1000}

TickArchive(t) ==
    /\ t > clock
    /\ clock' = t
    /\ UNCHANGED <<logFile, stateVars, archiveVars, summaryVars, dashVars, webVars, notifVars, cfgVars, pushVars, histVars, syncVars, ghostVars, clearVars, tuiVars, relVars>>

\* The archive subsystem before anything has used it.
ArchiveUnused ==
    /\ configFile = "absent"
    /\ fs = [x \in MapPaths |-> AbsentFile]
    /\ archive = [x \in {computeArchivePath(s, t) :
                            s \in SessionIds, t \in {ArchiveStart} \cup ArchiveInstants}
                     |-> <<>>]
    /\ proc = [p \in Pids |-> IdleProc]
    /\ syncer = [cached |-> FALSE, basePath |-> "", cacheTs |-> 0,
                 state |-> [s \in SessionIds |-> NoSyncState]]
    /\ raised = {}


(***************************************************************************)
(* dashboard/src/summarizer.js                                             *)
(***************************************************************************)
DEBOUNCE_MS == 10000

\* The session a caller hands to getSummary: its tool events and its
\* conversation messages are counted, and either count may stay or change
\* from one call to the next.
ToolCounts == {0, 1}
MessageCounts == {0, 1}

SummarySessions ==
    [id : SessionIds, toolCount : ToolCounts, messageCount : MessageCounts]

\* ruleSummary(session): a text composed from the session alone.
ruleSummary(session) == [from |-> "rule", toolCount |-> session.toolCount]

\* The text of a successful API response.
ApiText == [from |-> "api", toolCount |-> -1]

NoCache == [text |-> [from |-> "none", toolCount |-> -1], toolCount |-> -1, ts |-> -1]

NoCall == [called |-> FALSE, id |-> "-", toolCount |-> 0, messageCount |-> 0,
           hadCache |-> FALSE, cachedToolCount |-> 0, cachedMessageCount |-> 0,
           fromCache |-> FALSE, issued |-> FALSE, apiKey |-> FALSE,
           text |-> NoCache.text]

\* getSummary: if (cached && cached.toolCount === session.toolCount) return cached.text
CacheValid(cached, session) ==
    cached # NoCache /\ cached.toolCount = session.toolCount

\* shouldRefresh without the in-flight test.
ShouldRefreshIgnoringPending(session, now) ==
    /\ smConfig.apiKey
    /\ (smCache[session.id] = NoCache \/ now - smCache[session.id].ts >= DEBOUNCE_MS)

\* shouldRefresh without the debounce test.
ShouldRefreshWithoutDebounce(session, now) ==
    /\ smConfig.apiKey
    /\ session.id \notin smPending

\* getSummary: apiKey && !_pending.has(id) && (!cached || now - cached.ts >= DEBOUNCE_MS)
ShouldRefresh(session, now) ==
    /\ smConfig.apiKey
    /\ session.id \notin smPending
    /\ (smCache[session.id] = NoCache \/ now - smCache[session.id].ts >= DEBOUNCE_MS)

RECURSIVE RequestsIn(_)
RequestsIn(S) ==
    IF S = {} THEN 0
    ELSE LET s == CHOOSE x \in S : TRUE IN Len(requests[s]) + RequestsIn(S \ {s})

TotalRequests == RequestsIn(SessionIds)

Outstanding(sid) == SelectSeq(requests[sid], LAMBDA r : r.doneAt = -1)

\* _refreshSummary up to callApi: the id is marked in flight and the request,
\* which keeps the session it was started for, is sent.
RefreshStarted(session, now) ==
    /\ smPending' = smPending \cup {session.id}
    /\ requests' = [requests EXCEPT ![session.id] =
                       Append(@, [issuedAt |-> now, doneAt |-> -1, session |-> session,
                                  ok |-> FALSE, onUpdateCalls |-> 0])]

\* getSummary(session), one synchronous call.
getSummary(session) ==
    LET cached == smCache[session.id]
        valid == CacheValid(cached, session)
        refresh == ~valid /\ ShouldRefresh(session, clock)
    IN  /\ refresh => TotalRequests < MaxRequests
        /\ IF refresh THEN RefreshStarted(session, clock)
           ELSE UNCHANGED <<smPending, requests>>
        /\ lastCall' = [called |-> TRUE, id |-> session.id,
                        toolCount |-> session.toolCount,
                        messageCount |-> session.messageCount,
                        hadCache |-> cached # NoCache,
                        cachedToolCount |-> IF cached # NoCache THEN cached.toolCount ELSE 0,
                        cachedMessageCount |-> cacheMsgs[session.id],
                        fromCache |-> valid,
                        issued |-> refresh,
                        apiKey |-> smConfig.apiKey,
                        text |-> IF cached # NoCache THEN cached.text
                                 ELSE ruleSummary(session)]
        /\ UNCHANGED <<clock, logFile, stateVars, archiveVars, dashVars, webVars, notifVars, smConfig, smCache, cacheMsgs, cfgVars, pushVars, histVars, syncVars, ghostVars, clearVars, tuiVars, relVars>>

\* What callApi's promise can do: resolve with the response text, resolve with
\* null (request error, timeout, a response without the text, unparsable or
\* empty response), or reject (its executor throws).
ApiOutcomes == {"text", "null", "rejected"}

\* What the onUpdate callback does when it is invoked.
CallbackOutcomes == {"returns", "throws"}

\* The handlers a settled promise runs.  The .then handler ends with the call
\* of onUpdate; when that call throws, the promise .then returns is rejected
\* and the .catch handler runs after it.  A rejected callApi runs .catch only.
HandlersRun(outcome, cb) ==
    IF outcome = "rejected" THEN <<"catch">>
    ELSE IF cb = "throws" THEN <<"then", "catch">>
    ELSE <<"then">>

\* A failed request leaving the cache as it was.
SettledCacheSkipsFailure(session, outcome, cb, now) ==
    IF outcome = "text"
    THEN [text |-> ApiText, toolCount |-> session.toolCount, ts |-> now]
    ELSE NoCache

\* The cache entry the handlers leave: .then stores the text, or the rule
\* summary when the text is null; .catch stores the rule summary.
SettledCache(session, outcome, cb, now) ==
    LET last == HandlersRun(outcome, cb)[Len(HandlersRun(outcome, cb))]
    IN  [text |-> IF last = "then" /\ outcome = "text" THEN ApiText
                  ELSE ruleSummary(session),
         toolCount |-> session.toolCount,
         ts |-> now]

\* The promise of callApi settles and its handlers run.  Each handler takes
\* the id out of the in-flight set, stores a cache entry for the session the
\* request kept and calls onUpdate.
ApiSettles(sid, outcome, cb) ==
    /\ Outstanding(sid) # <<>>
    /\ LET i == CHOOSE k \in 1..Len(requests[sid]) : requests[sid][k].doneAt = -1
           session == requests[sid][i].session
       IN  /\ requests' = [requests EXCEPT ![sid][i].doneAt = clock,
                                           ![sid][i].ok = (outcome = "text"),
                                           ![sid][i].onUpdateCalls =
                                               Len(HandlersRun(outcome, cb))]
           /\ smPending' = smPending \ {sid}
           /\ smCache' = [smCache EXCEPT ![sid] = SettledCache(session, outcome, cb, clock)]
           /\ cacheMsgs' = [cacheMsgs EXCEPT ![sid] = session.messageCount]
    /\ lastCall' = NoCall
    /\ UNCHANGED <<clock, logFile, stateVars, archiveVars, dashVars, webVars, notifVars, smConfig, cfgVars, pushVars, histVars, syncVars, ghostVars, clearVars, tuiVars, relVars>>

\* updateConfig(config), after the setup screen has saved a configuration.
updateConfig(apiKey) ==
    /\ smConfig.apiKey # apiKey
    /\ smConfig' = [smConfig EXCEPT !.apiKey = apiKey]
    /\ lastCall' = NoCall
    /\ UNCHANGED <<clock, logFile, stateVars, archiveVars, dashVars, webVars, notifVars, smCache, smPending, requests,
                   cacheMsgs, cfgVars, pushVars, histVars, syncVars, ghostVars, clearVars, tuiVars, relVars>>

\* Time passes: to just before and to the end of a debounce window.
SummaryInstants ==
    {DEBOUNCE_MS - 1, DEBOUNCE_MS}

TickSummary(t) ==
    /\ t > clock
    /\ clock' = t
    /\ lastCall' = NoCall
    /\ UNCHANGED <<logFile, stateVars, archiveVars, dashVars, webVars, notifVars, smConfig, smCache, smPending, requests,
                   cacheMsgs, cfgVars, pushVars, histVars, syncVars, ghostVars, clearVars, tuiVars, relVars>>

\* new SummaryManager(config)
SummaryManagerNew ==
    /\ smConfig = [apiKey |-> FALSE]
    /\ smCache = [s \in SessionIds |-> NoCache]
    /\ smPending = {}
    /\ requests = [s \in SessionIds |-> <<>>]
    /\ cacheMsgs = [s \in SessionIds |-> 0]
    /\ lastCall = NoCall


(***************************************************************************)
(* dashboard/src/app.js: SessionWatcher                                    *)
(***************************************************************************)
\* DEBOUNCE_MS of the watcher's file (the summarizer has its own).
WATCH_DEBOUNCE_MS == 300
POLL_INTERVAL_MS == 1000

\* The .jsonl files of the state directory, and their modification times.
LogNames == {"a.jsonl", "b.jsonl"}
NoMtime == 0
Mtimes == {1, 2}

NoHandle == 0
NoInterval == -1

\* The log files the directory holds, with their mtimes: none when the
\* directory is missing.
Listing == IF dir.exists THEN dir.mtime ELSE [f \in LogNames |-> NoMtime]

Largest(S) == CHOOSE x \in S : \A y \in S : y <= x

\* _debouncedEmit leaving the earlier timeout pending.
ClearedTimeoutKept(w, pending) == pending

\* clearTimeout(this._debounceTimer): the timeout the handle names, the one set
\* last, is cancelled if it is still pending.
ClearedTimeout(w, pending) ==
    IF w._debounceTimer /\ pending # {} THEN pending \ {Largest(pending)} ELSE pending

\* _startPolling: nothing when an interval is already set.
StartPollingWatcher(w) == [w EXCEPT !._pollTimer = TRUE]
StartPollingTimers(w, t) ==
    IF w._pollTimer THEN t ELSE [t EXCEPT !.poll = POLL_INTERVAL_MS]

\* start(): the directory is created when missing; fs.watch either gives a
\* handle, kept in _fsWatcher, or throws, and then polling starts.
WatcherStart(ok) ==
    /\ wlog.starts < MaxStarts
    /\ wlog.events < MaxEvents
    /\ dir' = [dir EXCEPT !.exists = TRUE]
    /\ IF ok
       THEN /\ watcher' = [watcher EXCEPT !._fsWatcher = wlog.starts + 1]
            /\ timers' = [timers EXCEPT !.handles = @ \cup {wlog.starts + 1}]
       ELSE /\ watcher' = StartPollingWatcher(watcher)
            /\ timers' = StartPollingTimers(watcher, timers)
    /\ wlog' = [wlog EXCEPT !.starts = @ + 1, !.events = @ + 1, !.stopped = FALSE, !.emittedSinceStop = FALSE]
    /\ UNCHANGED <<clock, logFile, stateVars, archiveVars, summaryVars, webVars, notifVars, cfgVars, pushVars, histVars, syncVars, ghostVars, clearVars, tuiVars, relVars>>

\* stop(): closes the handle in _fsWatcher, clears the interval and the
\* timeout the fields name, and sets the fields to null.
WatcherStop ==
    /\ watcher' = [watcher EXCEPT !._fsWatcher = NoHandle, !._pollTimer = FALSE,
                                  !._debounceTimer = FALSE]
    /\ timers' = [handles |-> timers.handles \ {watcher._fsWatcher},
                  poll |-> IF watcher._pollTimer THEN NoInterval ELSE timers.poll,
                  timeouts |-> ClearedTimeout(watcher, timers.timeouts)]
    /\ wlog' = [wlog EXCEPT !.stopped = TRUE, !.emittedSinceStop = FALSE,
                            !.cancelled = @ \/ (ClearedTimeout(watcher, timers.timeouts)
                                                   # timers.timeouts)]
    /\ UNCHANGED <<clock, logFile, stateVars, archiveVars, summaryVars, webVars, notifVars, dir, cfgVars, pushVars, histVars, syncVars, ghostVars, clearVars, tuiVars, relVars>>

\* An open native handle reports a change of the directory: its listener
\* calls _debouncedEmit, which cancels the pending timeout and sets a new one.
Notification(h) ==
    /\ h \in timers.handles
    /\ wlog.events < MaxEvents
    /\ timers' = [timers EXCEPT !.timeouts =
                     ClearedTimeout(watcher, @) \cup {WATCH_DEBOUNCE_MS}]
    /\ watcher' = [watcher EXCEPT !._debounceTimer = TRUE]
    /\ wlog' = [wlog EXCEPT !.events = @ + 1, !.notified = TRUE, !.sinceNotify = 0,
                            !.emitsSinceNotify = 0, !.cancelled = FALSE,
                            !.burstLen = IF timers.timeouts # {} THEN @ + 1 ELSE 1,
                            !.lastGap = wlog.sinceNotify]
    /\ UNCHANGED <<clock, logFile, stateVars, archiveVars, summaryVars, webVars, notifVars, dir, cfgVars, pushVars, histVars, syncVars, ghostVars, clearVars, tuiVars, relVars>>

\* An open native handle reports an error and is closed by the runtime: its
\* listener sets _fsWatcher to null and starts polling.
NativeError(h) ==
    /\ h \in timers.handles
    /\ watcher' = [StartPollingWatcher(watcher) EXCEPT !._fsWatcher = NoHandle]
    /\ timers' = [StartPollingTimers(watcher, timers) EXCEPT !.handles = @ \ {h}]
    /\ UNCHANGED <<clock, logFile, stateVars, archiveVars, summaryVars, webVars, notifVars, dir, wlog, cfgVars, pushVars, histVars, syncVars, ghostVars, clearVars, tuiVars, relVars>>

\* A pending debounce timeout is due: this.emit('change').
TimeoutFires ==
    /\ 0 \in timers.timeouts
    /\ timers' = [timers EXCEPT !.timeouts = @ \ {0}]
    /\ wlog' = [wlog EXCEPT !.emitsSinceNotify = @ + 1,
                            !.lastEmitAfter = wlog.sinceNotify,
                            !.emittedSinceStop = @ \/ wlog.stopped]
    /\ UNCHANGED <<clock, logFile, stateVars, archiveVars, summaryVars, webVars, notifVars, dir, watcher, cfgVars, pushVars, histVars, syncVars, ghostVars, clearVars, tuiVars, relVars>>

\* The poll of _startPolling: the files whose mtime differs from the entry of
\* _lastMtimes, and the entries whose file is no longer listed.
PollChanged ==
    \/ \E f \in LogNames : dir.mtime[f] # NoMtime /\ watcher._lastMtimes[f] # dir.mtime[f]
    \/ \E f \in LogNames : dir.mtime[f] = NoMtime /\ watcher._lastMtimes[f] # NoMtime

\* The interval is due: one poll cycle; nothing is done when the directory
\* does not exist.
PollTick ==
    /\ timers.poll = 0
    /\ wlog.events < MaxEvents
    /\ timers' = [timers EXCEPT !.poll = POLL_INTERVAL_MS]
    /\ watcher' = IF dir.exists THEN [watcher EXCEPT !._lastMtimes = dir.mtime]
                  ELSE watcher
    /\ wlog' = [wlog EXCEPT !.events = @ + 1,
                            !.lastPoll = [polled |-> TRUE,
                                          first |-> ~wlog.polledBefore,
                                          differed |-> Listing # wlog.prevListing,
                                          emits |-> IF dir.exists /\ PollChanged
                                                    THEN 1 ELSE 0],
                            !.polledBefore = TRUE,
                            !.prevListing = Listing,
                            !.emittedSinceStop = @ \/ (wlog.stopped /\ dir.exists
                                                          /\ PollChanged)]
    /\ UNCHANGED <<clock, logFile, stateVars, archiveVars, summaryVars, webVars, notifVars, dir, cfgVars, pushVars, histVars, syncVars, ghostVars, clearVars, tuiVars, relVars>>

\* The hooks and the user change the directory: a log file is written (new or
\* modified), a log file is deleted, the directory is deleted.
DirChange(new) ==
    /\ wlog.events < MaxEvents
    /\ new # dir
    /\ dir' = new
    /\ wlog' = [wlog EXCEPT !.events = @ + 1]
    /\ UNCHANGED <<clock, logFile, stateVars, archiveVars, summaryVars, webVars, notifVars, watcher, timers, cfgVars, pushVars, histVars, syncVars, ghostVars, clearVars, tuiVars, relVars>>

FileWritten(f) ==
    /\ dir.exists
    /\ DirChange([dir EXCEPT !.mtime[f] = IF @ = 1 THEN 2 ELSE 1])

FileRemoved(f) ==
    /\ dir.exists
    /\ DirChange([dir EXCEPT !.mtime[f] = NoMtime])

DirRemoved ==
    /\ dir.exists
    /\ DirChange([exists |-> FALSE, mtime |-> [f \in LogNames |-> NoMtime]])

\* Time passes, by 299 ms or up to the next timeout or interval that is due;
\* no timer is passed over.
Pending == timers.timeouts \cup (IF timers.poll = NoInterval THEN {} ELSE {timers.poll})

Atmost(a, b) == IF a < b THEN a ELSE b

Advance(d) ==
    /\ d > 0
    /\ \A x \in Pending : d <= x
    /\ timers' = [timers EXCEPT !.timeouts = {x - d : x \in @},
                                !.poll = IF @ = NoInterval THEN @ ELSE @ - d]
    /\ wlog' = [wlog EXCEPT !.sinceNotify = Atmost(@ + d, WATCH_DEBOUNCE_MS)]
    /\ UNCHANGED <<clock, logFile, stateVars, archiveVars, summaryVars, webVars, notifVars, dir, watcher, cfgVars, pushVars, histVars, syncVars, ghostVars, clearVars, tuiVars, relVars>>

NoPoll == [polled |-> FALSE, first |-> FALSE, differed |-> FALSE, emits |-> 0]

\* new SessionWatcher(), nothing started.
WatcherUnused ==
    /\ watcher = [_fsWatcher |-> NoHandle, _pollTimer |-> FALSE, _debounceTimer |-> FALSE,
                  _lastMtimes |-> [f \in LogNames |-> NoMtime]]
    /\ timers = [handles |-> {}, poll |-> NoInterval, timeouts |-> {}]
    /\ dir = [exists |-> FALSE, mtime |-> [f \in LogNames |-> NoMtime]]
    /\ wlog = [starts |-> 0, events |-> 0,
               stopped |-> FALSE, emittedSinceStop |-> FALSE, cancelled |-> FALSE,
               notified |-> FALSE, sinceNotify |-> 0, emitsSinceNotify |-> 0,
               burstLen |-> 0, lastGap |-> 0,
               lastEmitAfter |-> WATCH_DEBOUNCE_MS,
               lastPoll |-> NoPoll, polledBefore |-> FALSE,
               prevListing |-> [f \in LogNames |-> NoMtime]]


(***************************************************************************)
(* dashboard/src/web/server.js                                             *)
(***************************************************************************)
MAX_SSE_CLIENTS == 50

\* The channels followed one by one; the channels counted in others are
\* held in the set like them.
Chans == {"c1", "c2"}

Range(seq) == {seq[i] : i \in 1..Len(seq)}

\* sseClients.size
Size == Len(sseClients) + others

\* GET /api/events with the cap test loosened by one.
CapReachedStrict(size) == size > MAX_SSE_CLIENTS

\* GET /api/events: if (sseClients.size >= MAX_SSE_CLIENTS)
CapReached(size) == size >= MAX_SSE_CLIENTS

\* buildPayload and JSON.stringify: the serialized sessions of the moment.
buildPayload == snapshot

NoPayload == -1

\* broadcast without the try around each write: the first failing write
\* ends the loop.
WrittenUntilFirstFailure(order, bad) ==
    {order[i] : i \in {k \in 1..Len(order) : \A j \in 1..k : order[j] \notin bad}}

\* broadcast: for (const res of sseClients) { try { res.write } catch { delete } }.
\* The channels that get the payload, the set being walked in insertion order.
Written(order, bad) == Range(order) \ bad

\* The channels broadcast deletes: those whose write throws.
Removed(order, bad) == Range(order) \cap bad

\* GET /api/events sending no initial state.
InitialWritesNone(payloadOk, writeOk) == 0

\* GET /api/events, initial state: try { payload = ...; res.write(...) } catch {}.
InitialWrites(payloadOk, writeOk) == IF payloadOk /\ writeOk THEN 1 ELSE 0

NoChan == [state |-> "none", initial |-> 0, initFailed |-> FALSE, got |-> 0, due |-> 0,
           last |-> NoPayload, lateWrite |-> FALSE]

Quiet == [kind |-> "none", n |-> wire.n, sizeBefore |-> 0, rejected |-> FALSE,
          built |-> FALSE, payload |-> NoPayload, order |-> <<>>, targets |-> {},
          threw |-> {}, wrote |-> {}]

\* A client asks for the event stream: 503 when the cap is reached, else the
\* channel joins the set, gets the initial payload and its handlers.
Connect(c, payloadOk, writeOk) ==
    /\ chan[c].state = "none"
    /\ IF CapReached(Size)
       THEN /\ wire' = [Quiet EXCEPT !.kind = "connect", !.sizeBefore = Size,
                                     !.rejected = TRUE]
            /\ UNCHANGED <<sseClients, chan>>
       ELSE /\ sseClients' = Append(sseClients, c)
            /\ chan' = [chan EXCEPT ![c] =
                           [NoChan EXCEPT !.state = "open",
                                          !.initial = InitialWrites(payloadOk, writeOk),
                                          !.initFailed = ~(payloadOk /\ writeOk),
                                          !.last = IF InitialWrites(payloadOk, writeOk) = 1
                                                   THEN buildPayload ELSE NoPayload]]
            /\ wire' = [Quiet EXCEPT !.kind = "connect", !.sizeBefore = Size]
    /\ UNCHANGED <<clock, logFile, stateVars, archiveVars, summaryVars, dashVars, notifVars, others,
                   snapshot, cfgVars, pushVars, histVars, syncVars, ghostVars, clearVars, tuiVars, relVars>>

\* The same request from a client that is not followed.
OtherConnects ==
    /\ IF CapReached(Size)
       THEN /\ wire' = [Quiet EXCEPT !.kind = "connect", !.sizeBefore = Size,
                                     !.rejected = TRUE]
            /\ UNCHANGED others
       ELSE /\ wire' = [Quiet EXCEPT !.kind = "connect", !.sizeBefore = Size]
            /\ others' = others + 1
    /\ UNCHANGED <<clock, logFile, stateVars, archiveVars, summaryVars, dashVars, notifVars,
                   sseClients, chan, snapshot, cfgVars, pushVars, histVars, syncVars, ghostVars, clearVars, tuiVars, relVars>>

OtherDisconnects ==
    /\ others > 0
    /\ others' = others - 1
    /\ wire' = Quiet
    /\ UNCHANGED <<clock, logFile, stateVars, archiveVars, summaryVars, dashVars, notifVars,
                   sseClients, chan, snapshot, cfgVars, pushVars, histVars, syncVars, ghostVars, clearVars, tuiVars, relVars>>

\* req.on('close'): sseClients.delete(res)
Close(c) ==
    /\ chan[c].state \in {"open", "errored"}
    /\ chan' = [chan EXCEPT ![c].state = "closed"]
    /\ sseClients' = SelectSeq(sseClients, LAMBDA x : x # c)
    /\ wire' = Quiet
    /\ UNCHANGED <<clock, logFile, stateVars, archiveVars, summaryVars, dashVars, notifVars, others,
                   snapshot, cfgVars, pushVars, histVars, syncVars, ghostVars, clearVars, tuiVars, relVars>>

\* res.on('error'): sseClients.delete(res)
SocketError(c) ==
    /\ chan[c].state = "open"
    /\ chan' = [chan EXCEPT ![c].state = "errored"]
    /\ sseClients' = SelectSeq(sseClients, LAMBDA x : x # c)
    /\ wire' = Quiet
    /\ UNCHANGED <<clock, logFile, stateVars, archiveVars, summaryVars, dashVars, notifVars, others,
                   snapshot, cfgVars, pushVars, histVars, syncVars, ghostVars, clearVars, tuiVars, relVars>>

\* The session logs change, and with them the payload.
SnapshotChanges ==
    /\ snapshot' = 1 - snapshot
    /\ wire' = Quiet
    /\ UNCHANGED <<clock, logFile, stateVars, archiveVars, summaryVars, dashVars, notifVars,
                   sseClients, others, chan, cfgVars, pushVars, histVars, syncVars, ghostVars, clearVars, tuiVars, relVars>>

\* broadcast(), called on a watcher 'change', by the 5 s interval, by
\* onUpdate and after /api/clear.  The payload is built once; when that
\* throws the cycle is skipped.  bad are the followed channels whose write
\* throws, k the number of other channels whose write throws.
Broadcast(payloadOk, bad, k) ==
    /\ wire.n < MaxBroadcasts
    /\ bad \subseteq Range(sseClients)
    /\ k <= others
    /\ IF ~payloadOk
       THEN /\ wire' = [Quiet EXCEPT !.kind = "broadcast", !.n = @ + 1,
                                     !.targets = Range(sseClients)]
            /\ UNCHANGED <<sseClients, others, chan>>
       ELSE /\ chan' = [c \in Chans |->
                           [chan[c] EXCEPT
                               !.got = IF c \in Written(sseClients, bad) THEN @ + 1 ELSE @,
                               !.last = IF c \in Written(sseClients, bad)
                                        THEN buildPayload ELSE @,
                               !.due = IF c \in Range(sseClients) \ bad THEN @ + 1 ELSE @,
                               !.lateWrite = @ \/ (c \in Written(sseClients, bad)
                                                      /\ chan[c].state # "open")]]
            /\ sseClients' = SelectSeq(sseClients,
                                 LAMBDA x : x \notin Removed(sseClients, bad))
            /\ others' = others - k
            /\ wire' = [Quiet EXCEPT !.kind = "broadcast", !.n = @ + 1, !.built = TRUE,
                                     !.payload = buildPayload, !.order = sseClients,
                                     !.targets = Range(sseClients), !.threw = bad,
                                     !.wrote = Written(sseClients, bad)]
    /\ UNCHANGED <<clock, logFile, stateVars, archiveVars, summaryVars, dashVars, notifVars, snapshot, cfgVars, pushVars, histVars, syncVars, ghostVars, clearVars, tuiVars, relVars>>

\* startWebServer: no channel yet.
WebServerStarted ==
    /\ sseClients = <<>>
    /\ others = 0
    /\ chan = [c \in Chans |-> NoChan]
    /\ snapshot = 0
    /\ wire = [kind |-> "none", n |-> 0, sizeBefore |-> 0, rejected |-> FALSE,
               built |-> FALSE, payload |-> NoPayload, order |-> <<>>, targets |-> {},
               threw |-> {}, wrote |-> {}]

(***************************************************************************)
(* dashboard/src/web/server.js: from a hook's append to the push.  The     *)
(* session logs are followed by their version, the number of events the    *)
(* hooks have appended, and a payload by the version it was built from.    *)
(***************************************************************************)
WatcherModes == {"native", "polling", "none"}

\* No payload written to the channel yet.
NoVersion == -1

\* An interval whose callback does nothing.
TickTargetsNone(order, bad) == {}

\* setInterval(broadcast, 5000): the channels the tick's broadcast writes to.
TickTargets(order, bad) == Written(order, bad)

\* broadcast() as the web server's watcher, interval and onUpdate call it:
\* when the payload is built, targets get it and the channels whose write
\* throws leave the set; when it is not, the cycle is skipped.
PushBroadcast(by, payloadOk, targets, bad) ==
    /\ pushBy' = by
    /\ IF payloadOk
       THEN /\ seen' = [c \in Chans |-> IF c \in targets THEN buildPayload ELSE seen[c]]
            /\ sseClients' = SelectSeq(sseClients,
                                 LAMBDA x : x \notin Removed(sseClients, bad))
       ELSE UNCHANGED <<seen, sseClients>>

\* A hook appends an event to a session log.
PushAppend ==
    /\ snapshot < MaxAppends
    /\ snapshot' = snapshot + 1
    /\ pushBy' = "none"
    /\ UNCHANGED <<clock, logFile, stateVars, archiveVars, summaryVars, dashVars, notifVars,
                   cfgVars, sseClients, others, chan, wire, pushWatch, seen, histVars, syncVars, ghostVars, clearVars, tuiVars, relVars>>

\* The native watcher reports a change of a .jsonl file: _debouncedEmit
\* clears the pending timeout and sets a new one.
PushNotification ==
    /\ pushWatch.mode = "native"
    /\ pushWatch' = [pushWatch EXCEPT !.debounce = TRUE]
    /\ pushBy' = "none"
    /\ UNCHANGED <<clock, logFile, stateVars, archiveVars, summaryVars, dashVars, notifVars,
                   cfgVars, webVars, seen, histVars, syncVars, ghostVars, clearVars, tuiVars, relVars>>

\* The native watcher reports an error: it is closed, polling starts.
PushNativeError ==
    /\ pushWatch.mode = "native"
    /\ pushWatch' = [pushWatch EXCEPT !.mode = "polling", !.polled = snapshot]
    /\ pushBy' = "none"
    /\ UNCHANGED <<clock, logFile, stateVars, archiveVars, summaryVars, dashVars, notifVars,
                   cfgVars, webVars, seen, histVars, syncVars, ghostVars, clearVars, tuiVars, relVars>>

\* The 1 s poll finds the mtimes changed and calls _debouncedEmit.
PushPoll ==
    /\ pushWatch.mode = "polling"
    /\ pushWatch.polled # snapshot
    /\ pushWatch' = [pushWatch EXCEPT !.polled = snapshot, !.debounce = TRUE]
    /\ pushBy' = "none"
    /\ UNCHANGED <<clock, logFile, stateVars, archiveVars, summaryVars, dashVars, notifVars,
                   cfgVars, webVars, seen, histVars, syncVars, ghostVars, clearVars, tuiVars, relVars>>

\* The debounce timeout fires: 'change' is emitted, its listener is broadcast.
PushChange(payloadOk, bad) ==
    /\ pushWatch.debounce
    /\ bad \subseteq Range(sseClients)
    /\ pushWatch' = [pushWatch EXCEPT !.debounce = FALSE]
    /\ PushBroadcast("change", payloadOk, Written(sseClients, bad), bad)
    /\ UNCHANGED <<clock, logFile, stateVars, archiveVars, summaryVars, dashVars, notifVars,
                   cfgVars, others, chan, snapshot, wire, histVars, syncVars, ghostVars, clearVars, tuiVars, relVars>>

\* The 5 s interval fires.
AutoRefresh(payloadOk, bad) ==
    /\ bad \subseteq Range(sseClients)
    /\ PushBroadcast("tick", payloadOk, TickTargets(sseClients, bad), bad)
    /\ UNCHANGED <<clock, logFile, stateVars, archiveVars, summaryVars, dashVars, notifVars,
                   cfgVars, others, chan, snapshot, wire, pushWatch, histVars, syncVars, ghostVars, clearVars, tuiVars, relVars>>

\* summaryManager.onUpdate, or the timeout set by POST /api/clear.
PushUpdate(payloadOk, bad) ==
    /\ bad \subseteq Range(sseClients)
    /\ PushBroadcast("update", payloadOk, Written(sseClients, bad), bad)
    /\ UNCHANGED <<clock, logFile, stateVars, archiveVars, summaryVars, dashVars, notifVars,
                   cfgVars, others, chan, snapshot, wire, pushWatch, histVars, syncVars, ghostVars, clearVars, tuiVars, relVars>>

\* GET /api/events: the channel joins the set and gets the initial payload,
\* unless building or writing it throws.
PushConnect(c, payloadOk, writeOk) ==
    /\ c \notin Range(sseClients)
    /\ ~CapReached(Size)
    /\ sseClients' = Append(sseClients, c)
    /\ seen' = [seen EXCEPT ![c] = IF InitialWrites(payloadOk, writeOk) = 1
                                   THEN buildPayload ELSE NoVersion]
    /\ pushBy' = "none"
    /\ UNCHANGED <<clock, logFile, stateVars, archiveVars, summaryVars, dashVars, notifVars,
                   cfgVars, others, chan, snapshot, wire, pushWatch, histVars, syncVars, ghostVars, clearVars, tuiVars, relVars>>

\* req.on('close') or res.on('error'): sseClients.delete(res)
PushClose(c) ==
    /\ c \in Range(sseClients)
    /\ sseClients' = SelectSeq(sseClients, LAMBDA x : x # c)
    /\ pushBy' = "none"
    /\ UNCHANGED <<clock, logFile, stateVars, archiveVars, summaryVars, dashVars, notifVars,
                   cfgVars, others, chan, snapshot, wire, pushWatch, seen, histVars, syncVars, ghostVars, clearVars, tuiVars, relVars>>

\* startWebServer before watcher.start().
PushUnused ==
    /\ pushWatch = [mode |-> "none", debounce |-> FALSE, polled |-> 0]
    /\ seen = [c \in Chans |-> NoVersion]
    /\ pushBy = "none"

(***************************************************************************)
(* dashboard/src/notifier.js                                               *)
(***************************************************************************)
NotifyStatuses == {"active", "idle", "stale", "ended"}
ToolNames == {"Edit", "Bash"}

\* The sessions of a snapshot: recentTools is given by its first entry, the
\* most recent tool, and is empty exactly when toolCount is 0.
NotifierSessions ==
    {x \in [id : SessionIds, status : NotifyStatuses, toolCount : ToolCounts,
            recentTools : {<<>>} \cup {<<t>> : t \in ToolNames},
            messageCount : MessageCounts] :
        x.toolCount = 0 <=> x.recentTools = <<>>}

\* The snapshots: at most one session per id, in the order of the ids.
Snapshots ==
    {<<>>} \cup {<<a>> : a \in NotifierSessions}
           \cup {<<a, b>> : a \in {x \in NotifierSessions : x.id = "s1"},
                            b \in {x \in NotifierSessions : x.id = "s2"}}

NoOld == [id |-> "-"]

\* prevMap.get(id): the last session of prev with the id, undefined if none.
PrevMapGet(prev, id) ==
    IF \E i \in 1..Len(prev) : prev[i].id = id
    THEN prev[CHOOSE i \in 1..Len(prev) :
                  /\ prev[i].id = id
                  /\ \A j \in 1..Len(prev) : prev[j].id = id => j <= i]
    ELSE NoOld

\* detectTransitions reporting every change of toolCount.
NewToolActivityOnChange(old, cur) == cur.toolCount # old.toolCount

\* detectTransitions: if (cur.toolCount > old.toolCount)
NewToolActivity(old, cur) == cur.toolCount > old.toolCount

\* detectTransitions reporting session_end from every status but ended.
SessionEndFromAny(old, cur) == old.status # "ended" /\ cur.status = "ended"

\* detectTransitions: (old.status === 'active' || old.status === 'idle') &&
\* cur.status === 'ended'
SessionEnd(old, cur) == old.status \in {"active", "idle"} /\ cur.status = "ended"

Transition(type, cur, detail) == [type |-> type, session |-> cur, detail |-> detail]

\* The body of the loop of detectTransitions for one session of current.
TransitionsOf(old, cur) ==
    IF old = NoOld THEN <<>>
    ELSE (IF SessionEnd(old, cur)
          THEN <<Transition("session_end", cur, "")>> ELSE <<>>)
      \o (IF old.status = "active" /\ cur.status = "idle"
          THEN <<Transition("became_idle", cur, "")>> ELSE <<>>)
      \o (IF old.status = "active" /\ cur.status = "stale"
          THEN <<Transition("became_stale", cur, "")>> ELSE <<>>)
      \o (IF NewToolActivity(old, cur)
          THEN <<Transition("new_tool_activity", cur,
                            IF cur.recentTools # <<>> THEN cur.recentTools[1]
                            ELSE "tool")>>
          ELSE <<>>)
      \o (IF cur.messageCount > old.messageCount
          THEN <<Transition("new_messages", cur, "")>> ELSE <<>>)

RECURSIVE detectTransitions(_, _)
detectTransitions(prev, current) ==
    IF current = <<>> THEN <<>>
    ELSE TransitionsOf(PrevMapGet(prev, Head(current).id), Head(current))
             \o detectTransitions(prev, Tail(current))

\* refresh: detectTransitions(previousSessions, allSessions)
Detect ==
    /\ ~detected
    /\ transitions' = detectTransitions(previousSessions, allSessions)
    /\ detected' = TRUE
    /\ UNCHANGED <<clock, logFile, stateVars, archiveVars, summaryVars, dashVars, webVars,
                   previousSessions, allSessions, cfgVars, pushVars, histVars, syncVars, ghostVars, clearVars, tuiVars, relVars>>

(***************************************************************************)
(* dashboard/src/app.js: refresh of the terminal dashboard.                *)
(***************************************************************************)
\* A session of loadAllSessions as detectTransitions reads it.  The event
\* lines of the model carry no tool_name, for which buildSession writes
\* 'unknown'; state.js sets no messageCount, which is read as 0.
SessionView(s) ==
    [id |-> s.id, status |-> s.status, toolCount |-> s.toolCount,
     recentTools |-> [i \in 1..Len(s.recentTools) |-> "unknown"],
     messageCount |-> 0]

\* The title refresh notifies a transition with; none for the other types.
TitleOf(type) ==
    CASE type = "session_end" -> "Agent Finished"
      [] type = "became_idle" -> "Agent Idle"
      [] type = "became_stale" -> "Agent Stale"
      [] OTHER -> "-"

\* for (const t of transitions) notify(title, ...)
Notices(trans) ==
    LET notified == SelectSeq(trans, LAMBDA t : TitleOf(t.type) # "-")
    IN  [i \in 1..Len(notified) |->
            [title |-> TitleOf(notified[i].type), id |-> notified[i].session.id]]

\* refresh(): loadAllSessions, detectTransitions against the sessions of the
\* cycle before when notifications are on and that list is not empty, one
\* notify per status transition, previousSessions = allSessions.
RefreshCycle ==
    LET loaded == loadAllSessions(clock)
        all == [i \in 1..Len(loaded) |-> SessionView(loaded[i])]
        trans == IF tui.notifications /\ Len(allSessions) > 0
                 THEN detectTransitions(allSessions, all) ELSE <<>>
    IN  /\ built' = [f \in SessionIds |-> BuiltOf(f, clock)]
        /\ sessions' = loaded
        /\ fresh' = TRUE
        /\ endedAt' = [f \in SessionIds |->
                           IF BuiltOf(f, clock) # NoSession
                              /\ BuiltOf(f, clock).status = "ended"
                           THEN [len |-> Len(logFile[f].lines),
                                 again |-> endedAt[f].len = Len(logFile[f].lines)]
                           ELSE endedAt[f]]
        /\ previousSessions' = allSessions
        /\ allSessions' = all
        /\ transitions' = trans
        /\ detected' = (tui.notifications /\ Len(allSessions) > 0)
        /\ tui' = [tui EXCEPT !.notices = Notices(trans)]
        /\ UNCHANGED <<clock, logFile, archiveVars, summaryVars, dashVars, webVars, cfgVars,
                       pushVars, syncVars, ghostVars, clearVars, relVars>>

\* The terminal dashboard before its first refresh, notifications off.
TuiUnused == tui = [notifications |-> FALSE, notices |-> <<>>]

(***************************************************************************)
(* dashboard/src/relationships.js                                          *)
(***************************************************************************)
\* The sessions handed to detectParentChild, their instants (ms) and counts.
RelIds == {"r1", "r2", "r3"}
RelTimes == {0, 20000}
RelToolCounts == {0, 3}
RelToolNames == {"Task", "Read"}
NoParent == "none"
TASK_WINDOW_MS == 5000
TOOL_ESTIMATE_MS == 2000

Abs(x) == IF x < 0 THEN -x ELSE x

\* calls = s.recentTools.filter(t => t.toolName === 'Task').map(t => t.ts)
TaskCalls(s) ==
    {s.recentTools[i].ts : i \in {k \in 1..Len(s.recentTools) :
                                      s.recentTools[k].toolName = "Task"}}

\* child.lastEventAt - child.toolCount * 2000
ChildStart(child) == child.lastEventAt - child.toolCount * TOOL_ESTIMATE_MS

\* parentId !== child.id, and some Task call of the parent is within 5 s of
\* the child's estimated start.
Matches(child, parent) ==
    /\ parent.id # child.id
    /\ \E callTs \in TaskCalls(parent) : Abs(callTs - ChildStart(child)) < TASK_WINDOW_MS

\* detectParentChild: for each session the first session of the list (the
\* insertion order of taskCalls) that matches it; a Map, one value per key.
detectParentChild(list) ==
    [id \in RelIds |->
        IF \E i \in 1..Len(list) : list[i].id = id
        THEN LET child == list[CHOOSE i \in 1..Len(list) : list[i].id = id]
                 cands == {j \in 1..Len(list) : Matches(child, list[j])}
             IN  IF cands = {} THEN NoParent
                 ELSE list[CHOOSE j \in cands : \A k \in cands : j <= k].id
        ELSE NoParent]

TreeRow(s, depth) == [session |-> s, depth |-> depth, isChild |-> depth > 0]

\* The second loop of buildSessionTree: each top-level session followed by
\* the sessions whose parent it is.
RECURSIVE TreeRows(_, _, _)
TreeRows(topLevel, list, parentMap) ==
    IF topLevel = <<>> THEN <<>>
    ELSE LET s == Head(topLevel)
             children == SelectSeq(list, LAMBDA c : parentMap[c.id] = s.id)
         IN  <<TreeRow(s, 0)>>
             \o [i \in 1..Len(children) |-> TreeRow(children[i], 1)]
             \o TreeRows(Tail(topLevel), list, parentMap)

\* buildSessionTree: topLevel holds the sessions that are no key of parentMap.
buildSessionTree(list, parentMap) ==
    TreeRows(SelectSeq(list, LAMBDA s : parentMap[s.id] = NoParent), list, parentMap)

\* The caller's steps: compute the parent map, then the tree.
RelDetect ==
    /\ rel.pc = "list"
    /\ rel' = [rel EXCEPT !.pc = "mapped",
                          !.parentMap = detectParentChild(rel.sessions)]
    /\ UNCHANGED <<clock, logFile, stateVars, archiveVars, summaryVars, dashVars, webVars,
                   notifVars, cfgVars, pushVars, histVars, syncVars, ghostVars, clearVars,
                   tuiVars>>

RelBuild ==
    /\ rel.pc = "mapped"
    /\ rel' = [rel EXCEPT !.pc = "built",
                          !.tree = buildSessionTree(rel.sessions, rel.parentMap)]
    /\ UNCHANGED <<clock, logFile, stateVars, archiveVars, summaryVars, dashVars, webVars,
                   notifVars, cfgVars, pushVars, histVars, syncVars, ghostVars, clearVars,
                   tuiVars>>

NoParents == [id \in RelIds |-> NoParent]

\* relationships.js not called.
RelUnused == rel = [pc |-> "list", sessions |-> <<>>, parentMap |-> NoParents, tree |-> <<>>]

\* No snapshot taken yet.
NotifierUnused ==
    /\ previousSessions = <<>>
    /\ allSessions = <<>>
    /\ transitions = <<>>
    /\ detected = FALSE

vars == <<clock, logFile, built, sessions, fresh, configFile, fs, archive, proc, syncer,
          raised, smConfig, smCache, smPending, requests, cacheMsgs, lastCall,
          watcher, timers, dir, wlog, sseClients, others, chan, snapshot, wire,
          previousSessions, allSessions, transitions, detected,
          config,
          pushWatch, seen, pushBy,
          endedAt,
          transcript, appeared,
          finished,
          clearer,
          tui,
          rel>>

InitState ==
    /\ clock = 0
    /\ logFile = [f \in SessionIds |-> NoFile]
    /\ built = [f \in SessionIds |-> NoSession]
    /\ sessions = <<>>
    /\ fresh = TRUE
    /\ ArchiveUnused
    /\ SummaryManagerNew
    /\ WatcherUnused
    /\ WebServerStarted
    /\ NotifierUnused
    /\ ConfigDefaults
    /\ PushUnused
    /\ NoneEnded
    /\ NoTranscript
    /\ NoneFinished
    /\ ClearIdle
    /\ TuiUnused
    /\ RelUnused

NextState ==
    \/ \E sid \in SessionIds, kind \in EventKinds : HookAppend(sid, kind)
    \/ \E f \in SessionIds, form \in {"object", "invalid", "falsy"} : ForeignAppend(f, form)
    \/ \E f \in SessionIds : SetUnreadable(f)
    \/ \E t \in StateInstants : TickState(t)
    \/ Refresh

SpecState == InitState /\ [][NextState]_vars

\* The web server once watcher.start() has returned: fs.watch succeeded, or it
\* threw and polling began; "none" is a watcher that runs in neither mode.
InitPush ==
    /\ clock = 0
    /\ logFile = [f \in SessionIds |-> NoFile]
    /\ built = [f \in SessionIds |-> NoSession]
    /\ sessions = <<>>
    /\ fresh = TRUE
    /\ ArchiveUnused
    /\ SummaryManagerNew
    /\ WatcherUnused
    /\ WebServerStarted
    /\ NotifierUnused
    /\ ConfigDefaults
    /\ pushWatch \in [mode : WatcherModes, debounce : {FALSE}, polled : {0}]
    /\ seen = [c \in Chans |-> NoVersion]
    /\ pushBy = "none"
    /\ NoneEnded
    /\ NoTranscript
    /\ NoneFinished
    /\ ClearIdle
    /\ TuiUnused
    /\ RelUnused

NextPush ==
    \/ PushAppend
    \/ PushNotification
    \/ PushNativeError
    \/ PushPoll
    \/ \E ok \in BOOLEAN, bad \in SUBSET Chans : PushChange(ok, bad)
    \/ \E ok \in BOOLEAN, bad \in SUBSET Chans : AutoRefresh(ok, bad)
    \/ \E ok \in BOOLEAN, bad \in SUBSET Chans : PushUpdate(ok, bad)
    \/ \E c \in Chans, ok1 \in BOOLEAN, ok2 \in BOOLEAN : PushConnect(c, ok1, ok2)
    \/ \E c \in Chans : PushClose(c)

\* The interval set by setInterval(broadcast, 5000) fires again and again, and
\* building the payload does not fail for ever.
AutoRefreshBuilt == \E bad \in SUBSET Chans : AutoRefresh(TRUE, bad)

SpecPush == InitPush /\ [][NextPush]_vars /\ WF_vars(AutoRefreshBuilt)

\* The terminal dashboard started on an empty state directory.
InitTui ==
    /\ clock = 0
    /\ logFile = [f \in SessionIds |-> NoFile]
    /\ built = [f \in SessionIds |-> NoSession]
    /\ sessions = <<>>
    /\ fresh = TRUE
    /\ ArchiveUnused
    /\ SummaryManagerNew
    /\ WatcherUnused
    /\ WebServerStarted
    /\ NotifierUnused
    /\ ConfigDefaults
    /\ PushUnused
    /\ NoneEnded
    /\ NoTranscript
    /\ NoneFinished
    /\ ClearIdle
    /\ tui \in [notifications : BOOLEAN, notices : {<<>>}]
    /\ RelUnused

NextTui ==
    \/ \E sid \in SessionIds, kind \in EventKinds : HookAppend(sid, kind)
    \/ \E t \in StateInstants : TickState(t)
    \/ RefreshCycle

SpecTui == InitTui /\ [][NextTui]_vars

InitClear == InitState

NextClear ==
    \/ \E sid \in SessionIds, kind \in EventKinds : HookAppend(sid, kind)
    \/ \E t \in StateInstants : TickState(t)
    \/ ClearStart
    \/ ClearRead
    \/ \E ok \in BOOLEAN : ClearUnlink(ok)
    \/ ClearReturn

SpecClear == InitClear /\ [][NextClear]_vars

\* The session lists: up to MaxRelLen sessions with distinct ids, in any
\* order, each with at most one recent tool.
MaxRelLen == 3
RelTools == {<<>>} \cup {<<[toolName |-> n, ts |-> t]>> : n \in RelToolNames, t \in RelTimes}
RelSessions ==
    [id : RelIds, lastEventAt : RelTimes, toolCount : RelToolCounts, recentTools : RelTools]
RelLists ==
    {l \in UNION {[1..n -> RelSessions] : n \in 1..MaxRelLen} :
        \A i, j \in 1..Len(l) : i # j => l[i].id # l[j].id}

InitRel ==
    /\ clock = 0
    /\ logFile = [f \in SessionIds |-> NoFile]
    /\ built = [f \in SessionIds |-> NoSession]
    /\ sessions = <<>>
    /\ fresh = TRUE
    /\ ArchiveUnused
    /\ SummaryManagerNew
    /\ WatcherUnused
    /\ WebServerStarted
    /\ NotifierUnused
    /\ ConfigDefaults
    /\ PushUnused
    /\ NoneEnded
    /\ NoTranscript
    /\ NoneFinished
    /\ ClearIdle
    /\ TuiUnused
    /\ rel \in [pc : {"list"}, sessions : RelLists, parentMap : {NoParents}, tree : {<<>>}]

NextRel ==
    \/ RelDetect
    \/ RelBuild

SpecRel == InitRel /\ [][NextRel]_vars

\* The values of maxRecentTools: missing, and two caps.
Caps == {NoMax, 1, 3}

InitBuild ==
    /\ clock = 0
    /\ logFile = [f \in SessionIds |-> NoFile]
    /\ built = [f \in SessionIds |-> NoSession]
    /\ sessions = <<>>
    /\ fresh = TRUE
    /\ ArchiveUnused
    /\ SummaryManagerNew
    /\ WatcherUnused
    /\ WebServerStarted
    /\ NotifierUnused
    /\ config \in [maxRecentTools : Caps]
    /\ PushUnused
    /\ NoneEnded
    /\ NoTranscript
    /\ NoneFinished
    /\ ClearIdle
    /\ TuiUnused
    /\ RelUnused

NextBuild ==
    \/ \E kind \in {"tool_use", "stop"} : TimedAppend(kind)
    \/ Refresh

SpecBuild == InitBuild /\ [][NextBuild]_vars

InitArchive ==
    /\ clock = ArchiveStart
    /\ logFile = [f \in SessionIds |-> NoFile]
    /\ built = [f \in SessionIds |-> NoSession]
    /\ sessions = <<>>
    /\ fresh = TRUE
    /\ configFile \in {"absent", "null", "ok"}
    /\ fs \in {[x \in MapPaths |-> IF x = MAP_PATH THEN f ELSE AbsentFile] :
                  f \in {AbsentFile, NullFile}}
    /\ archive = [x \in {computeArchivePath(s, t) :
                            s \in SessionIds, t \in {ArchiveStart} \cup ArchiveInstants}
                     |-> <<>>]
    /\ proc = [p \in Pids |-> IdleProc]
    /\ syncer = [cached |-> FALSE, basePath |-> "", cacheTs |-> 0,
                 state |-> [s \in SessionIds |-> NoSyncState]]
    /\ raised = {}
    /\ SummaryManagerNew
    /\ WatcherUnused
    /\ WebServerStarted
    /\ NotifierUnused
    /\ ConfigDefaults
    /\ PushUnused
    /\ NoneEnded
    /\ NoTranscript
    /\ NoneFinished
    /\ ClearIdle
    /\ TuiUnused
    /\ RelUnused

NextArchive ==
    \/ \E p \in Pids, sid \in SessionIds, kind \in HookKinds :
          HookStart(p, sid, kind)
    \/ \E p \in Pids : ArchiveEventResolve(p)
    \/ \E p \in Pids, ok \in BOOLEAN : ArchiveEventAppend(p, ok)
    \/ \E p \in Pids, ok \in BOOLEAN : InitArchiveAppend(p, ok, ok)
    \/ \E p \in Pids : InitArchiveLoadMap(p)
    \/ \E p \in Pids : SaveMapOpen(p)
    \/ \E p \in Pids : SaveMapWrite(p)
    \/ \E p \in Pids : SaveMapRename(p)
    \/ \E p \in Pids : HookStops(p)
    \/ \E sid \in SessionIds, summary \in {"", "A"} : Sync(sid, 0, summary, "", TRUE)
    \/ \E t \in ArchiveInstants : TickArchive(t)

SpecArchive == InitArchive /\ [][NextArchive]_vars

\* The dashboard with an archive configured and a mapping entry for s1,
\* written by the session-start hook; one ArchiveSyncer.
SyncTexts == {"", "A", "B"}

InitSync ==
    /\ clock = ArchiveStart
    /\ logFile = [f \in SessionIds |-> NoFile]
    /\ built = [f \in SessionIds |-> NoSession]
    /\ sessions = <<>>
    /\ fresh = TRUE
    /\ configFile = "ok"
    /\ fs = [x \in MapPaths |->
                IF x = MAP_PATH
                THEN CompleteFile(UpdatedMap(EmptyMap, "s1",
                                             computeArchivePath("s1", ArchiveStart)))
                ELSE AbsentFile]
    /\ archive = [x \in {computeArchivePath(s, t) :
                            s \in SessionIds, t \in {ArchiveStart} \cup ArchiveInstants}
                     |-> <<>>]
    /\ proc = [p \in Pids |-> IdleProc]
    /\ syncer = [cached |-> FALSE, basePath |-> "", cacheTs |-> 0,
                 state |-> [s \in SessionIds |-> NoSyncState]]
    /\ raised = {}
    /\ SummaryManagerNew
    /\ WatcherUnused
    /\ WebServerStarted
    /\ NotifierUnused
    /\ ConfigDefaults
    /\ PushUnused
    /\ NoneEnded
    /\ NoTranscript
    /\ NoneFinished
    /\ ClearIdle
    /\ TuiUnused
    /\ RelUnused

NextSync ==
    \/ TranscriptGrows
    \/ \E summary \in SyncTexts, topic \in SyncTexts :
          Sync("s1", transcript, summary, topic, TRUE)

SpecSync == InitSync /\ [][NextSync]_vars

InitSummary ==
    /\ clock = 0
    /\ logFile = [f \in SessionIds |-> NoFile]
    /\ built = [f \in SessionIds |-> NoSession]
    /\ sessions = <<>>
    /\ fresh = TRUE
    /\ ArchiveUnused
    /\ smConfig \in [apiKey : BOOLEAN]
    /\ smCache = [s \in SessionIds |-> NoCache]
    /\ smPending = {}
    /\ requests = [s \in SessionIds |-> <<>>]
    /\ cacheMsgs = [s \in SessionIds |-> 0]
    /\ lastCall = NoCall
    /\ WatcherUnused
    /\ WebServerStarted
    /\ NotifierUnused
    /\ ConfigDefaults
    /\ PushUnused
    /\ NoneEnded
    /\ NoTranscript
    /\ NoneFinished
    /\ ClearIdle
    /\ TuiUnused
    /\ RelUnused

NextSummary ==
    \/ \E session \in SummarySessions : getSummary(session)
    \/ \E sid \in SessionIds, outcome \in ApiOutcomes, cb \in CallbackOutcomes :
          ApiSettles(sid, outcome, cb)
    \/ \E apiKey \in BOOLEAN : updateConfig(apiKey)
    \/ \E t \in SummaryInstants : TickSummary(t)

SpecSummary == InitSummary /\ [][NextSummary]_vars

InitWatcher ==
    /\ clock = 0
    /\ logFile = [f \in SessionIds |-> NoFile]
    /\ built = [f \in SessionIds |-> NoSession]
    /\ sessions = <<>>
    /\ fresh = TRUE
    /\ ArchiveUnused
    /\ SummaryManagerNew
    /\ watcher = [_fsWatcher |-> NoHandle, _pollTimer |-> FALSE, _debounceTimer |-> FALSE,
                  _lastMtimes |-> [f \in LogNames |-> NoMtime]]
    /\ timers = [handles |-> {}, poll |-> NoInterval, timeouts |-> {}]
    /\ dir = [exists |-> TRUE,
              mtime |-> [f \in LogNames |-> IF f = "a.jsonl" THEN 1 ELSE NoMtime]]
    /\ wlog = [starts |-> 0, events |-> 0,
               stopped |-> FALSE, emittedSinceStop |-> FALSE, cancelled |-> FALSE,
               notified |-> FALSE, sinceNotify |-> 0, emitsSinceNotify |-> 0,
               burstLen |-> 0, lastGap |-> 0,
               lastEmitAfter |-> WATCH_DEBOUNCE_MS,
               lastPoll |-> NoPoll, polledBefore |-> FALSE,
               prevListing |-> [f \in LogNames |-> NoMtime]]
    /\ WebServerStarted
    /\ NotifierUnused
    /\ ConfigDefaults
    /\ PushUnused
    /\ NoneEnded
    /\ NoTranscript
    /\ NoneFinished
    /\ ClearIdle
    /\ TuiUnused
    /\ RelUnused

NextWatcher ==
    \/ \E ok \in BOOLEAN : WatcherStart(ok)
    \/ WatcherStop
    \/ \E h \in 1..MaxStarts : Notification(h)
    \/ \E h \in 1..MaxStarts : NativeError(h)
    \/ TimeoutFires
    \/ PollTick
    \/ \E f \in LogNames : FileWritten(f)
    \/ \E f \in LogNames : FileRemoved(f)
    \/ DirRemoved
    \/ \E d \in {WATCH_DEBOUNCE_MS - 1} \cup Pending : Advance(d)

SpecWatcher == InitWatcher /\ [][NextWatcher]_vars

InitWeb ==
    /\ clock = 0
    /\ logFile = [f \in SessionIds |-> NoFile]
    /\ built = [f \in SessionIds |-> NoSession]
    /\ sessions = <<>>
    /\ fresh = TRUE
    /\ ArchiveUnused
    /\ SummaryManagerNew
    /\ WatcherUnused
    /\ WebServerStarted
    /\ NotifierUnused
    /\ ConfigDefaults
    /\ PushUnused
    /\ NoneEnded
    /\ NoTranscript
    /\ NoneFinished
    /\ ClearIdle
    /\ TuiUnused
    /\ RelUnused

NextWeb ==
    \/ \E c \in Chans, payloadOk, writeOk \in BOOLEAN : Connect(c, payloadOk, writeOk)
    \/ OtherConnects
    \/ OtherDisconnects
    \/ \E c \in Chans : Close(c)
    \/ \E c \in Chans : SocketError(c)
    \/ SnapshotChanges
    \/ \E payloadOk \in BOOLEAN, bad \in SUBSET Chans, k \in {0, 1} :
          Broadcast(payloadOk, bad, k)

SpecWeb == InitWeb /\ [][NextWeb]_vars

InitNotifier ==
    /\ clock = 0
    /\ logFile = [f \in SessionIds |-> NoFile]
    /\ built = [f \in SessionIds |-> NoSession]
    /\ sessions = <<>>
    /\ fresh = TRUE
    /\ ArchiveUnused
    /\ SummaryManagerNew
    /\ WatcherUnused
    /\ WebServerStarted
    /\ previousSessions \in Snapshots
    /\ allSessions \in Snapshots
    /\ transitions = <<>>
    /\ detected = FALSE
    /\ ConfigDefaults
    /\ PushUnused
    /\ NoneEnded
    /\ NoTranscript
    /\ NoneFinished
    /\ ClearIdle
    /\ TuiUnused
    /\ RelUnused

NextNotifier == Detect

SpecNotifier == InitNotifier /\ [][NextNotifier]_vars

(***************************************************************************)
(* Claims about the session reconstructor.                                 *)
(***************************************************************************)
\* The lines of a log file that parse to an event object.
WellFormed(f) == SelectSeq(logFile[f].lines, LAMBDA l : l.json = "object")

LastWellFormed(f) == WellFormed(f)[Len(WellFormed(f))]

InResult(s) == \E i \in 1..Len(sessions) : sessions[i] = s

\* C1: the status a refresh cycle derives is given by the kind of the last
\* event and elapsed = now - ts(last event) alone: session_start is idle
\* below 5 min and stale from 5 min on, tool_use is active below 300 s and
\* stale from exactly 300 s on, stop is idle and session_end is ended at
\* every age.
C1_StatusTable ==
    fresh =>
        \A f \in SessionIds :
            built[f] # NoSession =>
                LET last == LastWellFormed(f)
                    elapsed == clock - last.ts
                IN  /\ last.event = "session_start" =>
                          built[f].status =
                              IF elapsed < STALE_THRESHOLD_MS THEN "idle" ELSE "stale"
                    /\ last.event = "tool_use" =>
                          built[f].status =
                              IF elapsed < 300 * 1000 THEN "active" ELSE "stale"
                    /\ last.event = "stop" => built[f].status = "idle"
                    /\ last.event = "session_end" => built[f].status = "ended"

\* A tool_use exactly 300 s old, after an earlier event, is stale.
C1_Witness ==
    /\ fresh
    /\ \E f \in SessionIds :
          /\ built[f] # NoSession
          /\ Len(WellFormed(f)) >= 2
          /\ LastWellFormed(f).event = "tool_use"
          /\ clock - LastWellFormed(f).ts = STALE_THRESHOLD_MS
          /\ built[f].status = "stale"

\* C2: a log whose last event is session_end gives status ended at every
\* later evaluation time, however far the clock has advanced.
C2_EndedStaysEnded ==
    fresh =>
        \A f \in SessionIds :
            (built[f] # NoSession /\ LastWellFormed(f).event = "session_end")
                => built[f].status = "ended"

\* A session that ended at least 5 min ago is evaluated.
C2_Witness ==
    /\ fresh
    /\ \E f \in SessionIds :
          /\ built[f] # NoSession
          /\ LastWellFormed(f).event = "session_end"
          /\ clock - LastWellFormed(f).ts >= STALE_THRESHOLD_MS
          /\ built[f].status = "ended"

\* C3: each session is reconstructed from exactly the well-formed lines of
\* its own file; a file that is missing, unreadable or without a well-formed
\* line gives no Session object, and nothing in another file changes that.
C3_PerFileReconstruction ==
    fresh =>
        /\ \A f \in SessionIds :
              LET ev == WellFormed(f)
              IN  IF ~logFile[f].exists \/ ~logFile[f].readable \/ ev = <<>>
                  THEN built[f] = NoSession
                  ELSE /\ built[f] # NoSession
                       /\ built[f].id = ev[1].session_id
                       /\ built[f].lastEventAt = ev[Len(ev)].ts
                       /\ built[f].toolCount =
                              Len(SelectSeq(ev, LAMBDA e : e.event = "tool_use"))
        /\ \A i \in 1..Len(sessions) :
              /\ sessions[i] # NoSession
              /\ \E f \in SessionIds : sessions[i] = built[f]

\* One file holds a line that does not parse and still gives its session,
\* while another file is unreadable and gives none.
C3_Witness ==
    /\ fresh
    /\ \E f, g \in SessionIds :
          /\ f # g
          /\ \E i \in 1..Len(logFile[f].lines) : logFile[f].lines[i].json = "invalid"
          /\ built[f] # NoSession
          /\ InResult(built[f])
          /\ logFile[g].exists
          /\ ~logFile[g].readable
          /\ built[g] = NoSession

\* C4: a reconstructed session is hidden from the result of loadAllSessions
\* if and only if its toolCount is 0 and its status is ended or stale.
C4_HiddenIffEndedOrStaleGhost ==
    fresh =>
        \A f \in SessionIds :
            built[f] # NoSession =>
                (~InResult(built[f]) <=>
                    (built[f].toolCount = 0 /\ built[f].status \in {"ended", "stale"}))

(***************************************************************************)
(* Claims about the archive subsystem.                                     *)
(***************************************************************************)
\* The archive files that hold an entry of a session.
FilesOf(sid) ==
    {x \in ArchivePaths : \E i \in 1..Len(archive[x]) : archive[x][i].session_id = sid}

\* C5: all archive entries of a session go to one file: the path the mapping
\* got at the session's first archive write is never replaced by another, so
\* an append made after midnight goes to the file of the first append.
C5_OneArchiveFilePerSession ==
    \A sid \in SessionIds : Cardinality(FilesOf(sid)) <= 1

InSaveMap(p) == proc[p].pc \in {"writing", "written"}

\* C6: under every interleaving of saveMap calls of concurrent hook
\* processes, and when a writer stops at any step, the mapping file is absent
\* or holds a completely written JSON text, never a partial one, and two
\* writers inside saveMap never use the same temporary file.
C6_MappingNeverTorn ==
    /\ fs[MAP_PATH].st # "partial"
    /\ \A p, q \in Pids : (p # q /\ InSaveMap(p) /\ InSaveMap(q)) => TmpPath(p) # TmpPath(q)

\* Two hook processes are inside saveMap at once, one with its temporary file
\* half written.
C6_Witness ==
    \E p, q \in Pids :
        /\ p # q
        /\ proc[p].pc = "writing"
        /\ fs[TmpPath(p)].st = "partial"
        /\ InSaveMap(q)

\* C26: concurrent writers of the mapping conflict only on the same session
\* id: once every initArchive call that hook processes made for different
\* session ids has run to its end, the mapping file holds an entry for each of
\* these ids; none is lost through the whole-file rewrite of another process.
C26_NoMappingEntryLost ==
    (\A p \in Pids : proc[p].pc = "idle") =>
        \A sid \in finished :
            /\ fs[MAP_PATH].st = "complete"
            /\ fs[MAP_PATH].json = "object"
            /\ fs[MAP_PATH].map[sid] # NoPath

\* C7: initArchive, archiveEvent and ArchiveSyncer.sync never raise an error
\* to their caller, whatever the config file and the mapping file hold.
C7_ArchiveNeverRaises == raised = {}

(***************************************************************************)
(* Claims about the SummaryManager.                                        *)
(***************************************************************************)
\* C8: for every session id at most one enrichment request is outstanding,
\* and the id is in the in-flight set exactly while its request has not
\* completed.
C8_OneRequestInFlight ==
    \A sid \in SessionIds :
        /\ Len(Outstanding(sid)) <= 1
        /\ sid \in smPending <=> Outstanding(sid) # <<>>

\* getSummary was called for a session whose request is in flight, with an
\* API key and nothing cached, and started no second request.
C8_Witness ==
    /\ lastCall.called
    /\ lastCall.id \in smPending
    /\ smConfig.apiKey
    /\ ~lastCall.hadCache
    /\ ~lastCall.issued
    /\ Len(requests[lastCall.id]) = 1

\* C9: any two enrichment requests of one session are at least 10 s apart:
\* a request starts no less than 10 s after an earlier request of the session
\* was issued and after it completed.
C9_RequestsTenSecondsApart ==
    \A sid \in SessionIds :
        \A i, j \in 1..Len(requests[sid]) :
            i < j =>
                /\ requests[sid][j].issuedAt - requests[sid][i].issuedAt >= DEBOUNCE_MS
                /\ requests[sid][i].doneAt # -1
                /\ requests[sid][j].issuedAt - requests[sid][i].doneAt >= DEBOUNCE_MS

\* A second request of a session, for another toolCount, started exactly 10 s
\* after the first one completed.
C9_Witness ==
    \E sid \in SessionIds :
        /\ Len(requests[sid]) = 2
        /\ requests[sid][2].session.toolCount # requests[sid][1].session.toolCount
        /\ requests[sid][2].issuedAt - requests[sid][1].doneAt = DEBOUNCE_MS

\* C10: getSummary serves the cached value exactly when neither toolCount nor
\* messageCount of the session differs from the values the cached value was
\* computed for.
C10_CacheValidIffCountsUnchanged ==
    (lastCall.called /\ lastCall.hadCache) =>
        (lastCall.fromCache <=>
            /\ lastCall.toolCount = lastCall.cachedToolCount
            /\ lastCall.messageCount = lastCall.cachedMessageCount)

\* C11: whenever the configuration has no enrichment key, getSummary returns
\* ruleSummary(session) and issues no request, also in a manager whose
\* configuration updateConfig has changed.
C11_NoKeyRuleSummaryOnly ==
    (lastCall.called /\ ~lastCall.apiKey) =>
        /\ ~lastCall.issued
        /\ lastCall.text = ruleSummary([id |-> lastCall.id,
                                        toolCount |-> lastCall.toolCount,
                                        messageCount |-> lastCall.messageCount])

\* The last request of a session, if it has been issued.
LastRequest(sid) == requests[sid][Len(requests[sid])]

C13_OneUpdatePerCompletion ==
    \A sid \in SessionIds :
        \A i \in 1..Len(requests[sid]) :
            requests[sid][i].doneAt # -1 =>
                /\ requests[sid][i].onUpdateCalls = 1
                /\ (i = Len(requests[sid]) /\ requests[sid][i].ok) =>
                      smCache[sid].text = ApiText

(***************************************************************************)
(* Claims about the SessionWatcher.                                        *)
(***************************************************************************)
\* C14: notifications that follow each other by less than 300 ms are
\* coalesced: no 'change' is emitted while a notification is less than 300 ms
\* old, and exactly one is emitted 300 ms after the last notification.
C14_BurstCoalesced ==
    /\ wlog.lastEmitAfter = WATCH_DEBOUNCE_MS
    /\ wlog.emitsSinceNotify <= 1
    /\ timers.timeouts # {} => wlog.emitsSinceNotify = 0
    /\ (wlog.notified /\ ~wlog.cancelled /\ timers.timeouts = {}) =>
           wlog.emitsSinceNotify = 1

\* Two notifications 299 ms apart have been followed by their one 'change'.
C14_Witness ==
    /\ wlog.burstLen = 2
    /\ wlog.lastGap = WATCH_DEBOUNCE_MS - 1
    /\ wlog.emitsSinceNotify = 1
    /\ ~wlog.stopped

\* C15: in polling mode a poll cycle emits exactly one 'change' when a log
\* file was added, removed or modified since the previous poll, and none
\* when nothing differs from the previous poll.
C15_PollEmitsIffDiffers ==
    /\ watcher._pollTimer <=> timers.poll # NoInterval
    /\ (wlog.lastPoll.polled /\ ~wlog.lastPoll.first) =>
           (wlog.lastPoll.emits = 1 <=> wlog.lastPoll.differed)

\* C16: after stop() no native handle, interval or timeout of the watcher is
\* left and no 'change' is emitted until start() is called again.
C16_NothingLeftAfterStop ==
    wlog.stopped =>
        /\ timers.handles = {}
        /\ timers.poll = NoInterval
        /\ timers.timeouts = {}
        /\ ~wlog.emittedSinceStop

(***************************************************************************)
(* Claims about the web server.                                            *)
(***************************************************************************)
\* C17: the set of push channels never holds more than 50 channels; a
\* connection attempt made while it holds 50 is rejected and adds nothing.
C17_AtMostFiftyChannels ==
    /\ Size <= MAX_SSE_CLIENTS
    /\ wire.kind = "connect" =>
          /\ wire.rejected <=> wire.sizeBefore >= MAX_SSE_CLIENTS
          /\ wire.rejected => Size = wire.sizeBefore

\* A connection attempt has been rejected with 50 channels in the set.
C17_Witness ==
    /\ wire.kind = "connect"
    /\ wire.rejected
    /\ Size = MAX_SSE_CLIENTS

Returned(id, types) ==
    SelectSeq(transitions, LAMBDA t : t.session.id = id /\ t.type \in types)

InSnapshot(snap, id) == \E i \in 1..Len(snap) : snap[i].id = id

SessionOf(snap, id) == snap[CHOOSE i \in 1..Len(snap) : snap[i].id = id]

\* C20: for a session in both snapshots detectTransitions yields exactly one
\* new_tool_activity transition, carrying the most recent tool, when toolCount
\* has grown and none otherwise, whatever the status; an unchanged status
\* yields no status-change transition; a session in only one snapshot yields
\* no transition.
C20_ToolActivityTransitions ==
    detected =>
        \A id \in SessionIds :
            IF InSnapshot(previousSessions, id) /\ InSnapshot(allSessions, id)
            THEN LET old == SessionOf(previousSessions, id)
                     cur == SessionOf(allSessions, id)
                     tool == Returned(id, {"new_tool_activity"})
                 IN  /\ cur.toolCount > old.toolCount =>
                            /\ Len(tool) = 1
                            /\ tool[1].detail = cur.recentTools[1]
                            /\ tool[1].session = cur
                     /\ cur.toolCount <= old.toolCount => tool = <<>>
                     /\ cur.status = old.status =>
                            Returned(id, {"session_end", "became_idle",
                                          "became_stale"}) = <<>>
            ELSE \A i \in 1..Len(transitions) : transitions[i].session.id # id

\* The spec's example: same status, toolCount grown, and one transition, the
\* new_tool_activity one, while the other session is in one snapshot only.
C20_Witness ==
    /\ detected
    /\ Len(previousSessions) = 1
    /\ Len(allSessions) = 2
    /\ previousSessions[1].id = "s1"
    /\ previousSessions[1].status = "active"
    /\ allSessions[1].status = "active"
    /\ allSessions[1].toolCount > previousSessions[1].toolCount
    /\ allSessions[1].messageCount = previousSessions[1].messageCount
    /\ Len(transitions) = 1
    /\ transitions[1].type = "new_tool_activity"

StatusTypes == {"session_end", "became_idle", "became_stale"}

\* C21: detectTransitions reports, for a session in both snapshots, session_end
\* exactly when the status goes from active or idle to ended, became_idle
\* exactly when it goes from active to idle, became_stale exactly when it goes
\* from active to stale, and so no status transition for any other change; it
\* reports at most one status transition per session, and the result is the
\* function of the two snapshots alone.
C21_StatusTransitions ==
    detected =>
        /\ transitions = detectTransitions(previousSessions, allSessions)
        /\ \A id \in SessionIds :
               InSnapshot(previousSessions, id) /\ InSnapshot(allSessions, id) =>
                   LET old == SessionOf(previousSessions, id).status
                       cur == SessionOf(allSessions, id).status
                       n(type) == Len(Returned(id, {type}))
                   IN  /\ n("session_end") =
                              (IF old \in {"active", "idle"} /\ cur = "ended" THEN 1 ELSE 0)
                       /\ n("became_idle") =
                              (IF old = "active" /\ cur = "idle" THEN 1 ELSE 0)
                       /\ n("became_stale") =
                              (IF old = "active" /\ cur = "stale" THEN 1 ELSE 0)
                       /\ Len(Returned(id, StatusTypes)) <= 1
                       /\ <<old, cur>> \in {<<"idle", "stale">>, <<"stale", "ended">>,
                                            <<"stale", "active">>, <<"idle", "active">>}
                              => Returned(id, StatusTypes) = <<>>

\* One call in which s1 goes from stale to ended, with no status transition,
\* and s2 from idle to ended, with a session_end.
C21_Witness ==
    /\ detected
    /\ Len(previousSessions) = 2
    /\ Len(allSessions) = 2
    /\ previousSessions[1].status = "stale"
    /\ allSessions[1].status = "ended"
    /\ previousSessions[2].status = "idle"
    /\ allSessions[2].status = "ended"
    /\ Returned("s1", StatusTypes) = <<>>
    /\ Len(Returned("s2", {"session_end"})) = 1

(***************************************************************************)
(* Claims about buildSession.                                              *)
(***************************************************************************)
ToolEventsOf(f) == SelectSeq(parseJsonlFile(logFile[f]), LAMBDA e : e.event = "tool_use")

\* The cap in force: maxRecentTools, 10 when it is missing.
CapInForce == IF config.maxRecentTools = NoMax THEN 10 ELSE config.maxRecentTools

\* C22: the session built from a log has toolCount equal to the number of its
\* tool_use events, and its recentTools holds exactly the min(toolCount, N)
\* most recent of them, most recent first, N being the cap (10 by default); so
\* recentTools never has more than N entries, however many events were appended.
C22_RecentToolsCapped ==
    \A f \in SessionIds :
        fresh /\ built[f] # NoSession =>
            LET tools == ToolEventsOf(f)
                n == Len(tools)
                k == IF n < CapInForce THEN n ELSE CapInForce
                rt == built[f].recentTools
            IN  /\ built[f].toolCount = n
                /\ Len(rt) = k
                /\ Len(rt) <= CapInForce
                /\ \A i \in 1..k : rt[i].ts = tools[n - i + 1].ts

\* A log with more tool_use events than the default cap: recentTools holds 10,
\* the first of them the event appended last.
C22_Witness ==
    /\ fresh
    /\ built["s1"] # NoSession
    /\ built["s1"].toolCount > CapInForce
    /\ Len(built["s1"].recentTools) = CapInForce
    /\ config.maxRecentTools = NoMax
    /\ built["s1"].recentTools[1].ts = clock

(***************************************************************************)
(* Claims about the path from a hook's append to the push channels.        *)
(***************************************************************************)
\* C23: every event that a hook appends to a session log is eventually in a
\* payload written to every channel that stays connected (a payload built
\* from the logs as they are after the append), whatever the watcher does:
\* also when its debounce timeout never fires and when it runs in no mode.
C23_AppendEventuallyPushed ==
    \A v \in 1..MaxAppends : \A c \in Chans :
        (snapshot >= v /\ c \in Range(sseClients))
            ~> (c \notin Range(sseClients) \/ seen[c] >= v)

\* The last append reached a channel by the interval's broadcast alone: the
\* watcher runs in no mode.
C23_Witness ==
    /\ pushWatch.mode = "none"
    /\ snapshot = MaxAppends
    /\ "c1" \in Range(sseClients)
    /\ seen["c1"] = MaxAppends
    /\ pushBy = "tick"

(***************************************************************************)
(* Claims about the status across refresh cycles.                          *)
(***************************************************************************)
\* A refresh cycle has just derived a status for f, and it is ended.
DerivedEnded(f) == fresh /\ built[f] # NoSession /\ built[f].status = "ended"

SyncedFile == archive[computeArchivePath("s1", ArchiveStart)]

EntriesOf(kind) == SelectSeq(SyncedFile, LAMBDA e : e.event = kind)

\* No two successive entries of the kind carry the same text, and the last
\* one carries the text the syncer holds as the last one appended.
AppendedOnChange(kind, last) ==
    LET es == EntriesOf(kind)
    IN  /\ \A i \in 1..(Len(es) - 1) : es[i].text # es[i + 1].text
        /\ es # <<>> => es[Len(es)].text = last
        /\ es = <<>> => last = ""

\* C25: for a session with a mapping entry and one ArchiveSyncer, every
\* message that has been in the conversation handed to a sync call is in the
\* archive exactly once, also once the conversation holds 20 messages; a
\* summary_update or topic_update is appended exactly when its text differs
\* from the last one appended.
C25_MessagesArchivedOnce ==
    /\ \A m \in appeared :
           Len(SelectSeq(EntriesOf("conversation_message"), LAMBDA e : e.n = m)) = 1
    /\ AppendedOnChange("summary_update", syncer.state["s1"].lastSummary)
    /\ AppendedOnChange("topic_update", syncer.state["s1"].lastTopic)

(***************************************************************************)
(* Claims about clearEndedSessions.                                        *)
(***************************************************************************)
\* C27: under every interleaving with the hooks, clearEndedSessions deletes a
\* log file only if its session is ended or stale at the moment of deletion
\* (never one whose last event makes it active or idle), it loses no event a
\* hook appended, and the count it returns is the number of files it deleted.
C27_ClearsOnlyInactive ==
    /\ clearer.last.made =>
           /\ clearer.last.status \in {"ended", "stale"}
           /\ clearer.last.lost = 0
    /\ clearer.pc = "returned" => clearer.cleared = clearer.unlinked

(***************************************************************************)
(* Claims about the notifications of the terminal dashboard.               *)
(***************************************************************************)
\* The 'Agent Finished' notifications the last refresh made for a session.
FinishedNotices(sid) ==
    SelectSeq(tui.notices, LAMBDA n : n.title = "Agent Finished" /\ n.id = sid)

\* The refresh before the last one showed the session as active or idle.
ShownRunning(sid) ==
    /\ InSnapshot(previousSessions, sid)
    /\ SessionOf(previousSessions, sid).status \in {"active", "idle"}

\* The log of the session ends with session_end.
EndsNow(sid) ==
    /\ logFile[sid].exists
    /\ WellFormed(sid) # <<>>
    /\ LastWellFormed(sid).event = "session_end"

\* C28: with notifications on, a session that one refresh shows as active or
\* idle and whose log ends with session_end at the next refresh gets exactly
\* one 'Agent Finished' notification at that refresh, whatever its toolCount;
\* no refresh notifies a session without this transition, so none twice.
C28_FinishedNotifiedOnce ==
    (fresh /\ tui.notifications) =>
        \A sid \in SessionIds :
            Len(FinishedNotices(sid)) =
                (IF ShownRunning(sid) /\ EndsNow(sid) THEN 1 ELSE 0)

(***************************************************************************)
(* Parent/child detection and the session tree                             *)
(***************************************************************************)
\* The rows of the tree that carry the session id.
RowsOf(id) == {k \in 1..Len(rel.tree) : rel.tree[k].session.id = id}

\* A child row stands in the run of child rows that follows its parent's
\* top-level row.
AfterItsParent(k) ==
    \E j \in 1..(k - 1) :
        /\ rel.tree[j].depth = 0
        /\ rel.tree[j].session.id = rel.parentMap[rel.tree[k].session.id]
        /\ \A m \in (j + 1)..k : rel.tree[m].isChild

DocumentedStatuses == {"active", "idle", "stale", "ended"}

\* The last event buildSession sees in a log file.
LastParsed(f) ==
    LET events == parseJsonlFile(logFile[f]) IN events[Len(events)]

====
